---- MODULE Spec2Model ----
(***************************************************************************)
(* A model of git-chat's relevance selector (src/src/file_selector.py), of *)
(* the commands of the CLI (src/src/main.py), and of the repository        *)
(* handler (src/src/git_handler.py) over the store                         *)
(* (src/src/mongodb_handler.py).                                           *)
(*                                                                         *)
(* Strings are TLA+ strings; Python's str operations (lower, in, count,    *)
(* endswith, split, basename, Path.suffix) are defined character by        *)
(* character below.  Scores are Python floats in the source; here they are  *)
(* fixed-point numbers in thousandths (see Ln1000 and CalculateScore).      *)
(***************************************************************************)
EXTENDS Integers, Sequences, FiniteSets, TLC

VARIABLES
    mode,            \* "direct": get_relevant_files is called with the inputs
                     \* as they are; "chat": it is called by the chat command
    query,           \* query / message
    all_files,       \* all_files
    max_files,       \* max_files
    max_tokens,      \* max_tokens / max_tokens_context
    localSize,       \* os.path.getsize under repo_path, per path
    db_files,        \* the store's file documents of the repository
    hashseed,        \* the hash seed of the running process
    pc,              \* the position in get_relevant_files or in the command
    idx,             \* the position of the running loop in its list
    keywords,        \* keywords
    scored_files,    \* scored_files
    tech_files,      \* tech_files
    important_files, \* important_files
    relevant_files,  \* relevant_files, in insertion order
    total_tokens,    \* total_tokens
    reads,           \* how often _read_file was called per path in this call
    calls,           \* how many calls of get_relevant_files were started
    first_result,    \* what the first call returned
    files_dict,      \* chat: files_dict
    outcome,         \* how the command ended
    sc_file_path,    \* _calculate_score: file_path
    sc_content,      \* _calculate_score: content
    sc_keywords,     \* _calculate_score: keywords
    sc_score,        \* _calculate_score: what it returned last, <<>> before
    sc_before,       \* what it returned before the content or the path was
                     \* last changed (followed by the path before, where
                     \* the path changed), <<>> when nothing was changed
    handler,         \* the GitHandler object: repo_url, owner, repo_name,
                     \* repo, repo_id
    mongodb,         \* the store: the collections repositories and files
    call,            \* the last call on the handler: its name, arguments
                     \* and result, and the requests it made
    cli              \* the command line: the module's REPO_ID, the content
                     \* of last_repo.txt, the command that runs with its
                     \* options, and its target_repo_id

(***************************************************************************)
(* Python string operations                                                *)
(***************************************************************************)

\* s[i] as a one-character string
CharAt(s, i) == SubSeq(s, i, i)

\* the set of characters of a string
CharsOf(s) == {CharAt(s, i) : i \in 1..Len(s)}

UpperCase == "ABCDEFGHIJKLMNOPQRSTUVWXYZ"
LowerCase == "abcdefghijklmnopqrstuvwxyz"
Digits == "0123456789"

\* str.lower() on one character
LowerChar(c) ==
    IF \E i \in 1..Len(UpperCase) : CharAt(UpperCase, i) = c
    THEN CharAt(LowerCase, CHOOSE i \in 1..Len(UpperCase) : CharAt(UpperCase, i) = c)
    ELSE c

\* str.lower(), character by character (the string is halved at each step)
RECURSIVE Lower(_)
Lower(s) ==
    IF Len(s) = 0 THEN ""
    ELSE IF Len(s) = 1 THEN LowerChar(s)
    ELSE Lower(SubSeq(s, 1, Len(s) \div 2)) \o Lower(SubSeq(s, Len(s) \div 2 + 1, Len(s)))

\* s.startswith(t) at offset i (1-based)
MatchAt(s, t, i) == i + Len(t) - 1 <= Len(s) /\ SubSeq(s, i, i + Len(t) - 1) = t

\* t in s
Contains(s, t) == \E i \in 1..(Len(s) - Len(t) + 1) : MatchAt(s, t, i)

\* s.endswith(t)
EndsWith(s, t) == Len(t) <= Len(s) /\ SubSeq(s, Len(s) - Len(t) + 1, Len(s)) = t

\* s.count(t) for non-empty t: non-overlapping occurrences, left to right,
\* counted from position i on; the next occurrence is the leftmost one
RECURSIVE CountFrom(_, _, _)
CountFrom(s, t, i) ==
    LET starts == {j \in i..(Len(s) - Len(t) + 1) : MatchAt(s, t, j)}
    IN IF starts = {} THEN 0
       ELSE LET first == CHOOSE j \in starts : \A k \in starts : j <= k
            IN 1 + CountFrom(s, t, first + Len(t))

Count(s, t) == CountFrom(s, t, 1)

\* index of the last occurrence of character c in s, 0 when absent (rfind + 1)
RECURSIVE RFind(_, _, _)
RFind(s, c, i) == IF i = 0 THEN 0 ELSE IF CharAt(s, i) = c THEN i ELSE RFind(s, c, i - 1)

\* os.path.basename(p)
Basename(p) == SubSeq(p, RFind(p, "/", Len(p)) + 1, Len(p))

\* pathlib.Path(p).suffix: the last dot of the final component and what follows,
\* unless that dot is the component's first or last character
Suffix(p) ==
    LET name == Basename(p)
        i == RFind(name, ".", Len(name))
    IN IF 1 < i /\ i < Len(name) THEN SubSeq(name, i, Len(name)) ELSE ""

\* x in xs for a Python list
InList(x, xs) == \E i \in 1..Len(xs) : xs[i] = x

\* the position of the first occurrence of x in the list xs
FirstIndex(xs, x) == CHOOSE i \in 1..Len(xs) : xs[i] = x /\ \A j \in 1..(i - 1) : xs[j] # x

\* the elements of a list
Elems(xs) == {xs[i] : i \in 1..Len(xs)}

\* the list without the repetitions of its elements, first occurrences kept
RECURSIVE Dedup(_)
Dedup(xs) ==
    IF xs = <<>> THEN <<>>
    ELSE LET front == Dedup(SubSeq(xs, 1, Len(xs) - 1))
             last == xs[Len(xs)]
         IN IF InList(last, front) THEN front ELSE Append(front, last)

Reverse(xs) == [i \in 1..Len(xs) |-> xs[Len(xs) - i + 1]]

\* xs rotated left by n places
Rotate(xs, n) ==
    IF xs = <<>> THEN <<>>
    ELSE LET k == n % Len(xs) IN SubSeq(xs, k + 1, Len(xs)) \o SubSeq(xs, 1, k)

(***************************************************************************)
(* Iteration order of a Python set of strings.  CPython orders a set by    *)
(* the elements' hashes, and str hashes are salted per interpreter run     *)
(* (PYTHONHASHSEED): the order is fixed within one process and differs     *)
(* between processes.  The order under a seed is one of a family of        *)
(* permutations of the elements: the listing, its reverse, and rotations   *)
(* of these.                                                               *)
(***************************************************************************)
HashSeeds == 2

\* xs lists the set's elements, each once
SetOrder(xs, seed) ==
    LET base == Rotate(xs, seed \div 2)
    IN IF seed % 2 = 0 THEN base ELSE Reverse(base)

(***************************************************************************)
(* FileSelector._extract_keywords                                          *)
(***************************************************************************)

\* \w of Python's re for the characters of the model: letters, digits, underscore
WordChars == CharsOf(UpperCase) \cup CharsOf(LowerCase) \cup CharsOf(Digits) \cup {"_"}

\* \s of Python's re
SpaceChars == {" ", "\t", "\n"}

\* re.sub(r'[^\w\s]', ' ', s), character by character
RECURSIVE SubPunctuation(_)
SubPunctuation(s) ==
    IF Len(s) = 0 THEN ""
    ELSE IF Len(s) = 1 THEN (IF s \in WordChars \cup SpaceChars THEN s ELSE " ")
    ELSE SubPunctuation(SubSeq(s, 1, Len(s) \div 2))
         \o SubPunctuation(SubSeq(s, Len(s) \div 2 + 1, Len(s)))

\* str.split(): the maximal runs of non-whitespace characters; cur is the run
\* being read at position i
RECURSIVE SplitFrom(_, _, _)
SplitFrom(s, i, cur) ==
    IF i > Len(s) THEN (IF cur = "" THEN <<>> ELSE <<cur>>)
    ELSE IF CharAt(s, i) \in SpaceChars
         THEN (IF cur = "" THEN <<>> ELSE <<cur>>) \o SplitFrom(s, i + 1, "")
         ELSE SplitFrom(s, i + 1, cur \o CharAt(s, i))

Split(s) == SplitFrom(s, 1, "")

stop_words ==
    {"a", "an", "the", "and", "or", "but", "if", "because", "as", "what", "which",
     "this", "that", "these", "those", "then", "just", "so", "than", "such", "both",
     "through", "about", "for", "is", "of", "while", "during", "to", "from", "in",
     "out", "on", "off", "over", "under", "again", "once", "here", "there", "when",
     "where", "why", "how", "all", "any", "both", "each", "few", "more", "most",
     "other", "some", "such", "no", "nor", "not", "only", "own", "same", "so",
     "than", "too", "very", "s", "t", "can", "will", "don", "should", "now",
     "using", "use", "used", "uses"}

\* the set literal tech_keywords, in the order the source lists it; the loop
\* over it runs in the set's iteration order (SetOrder)
tech_keywords ==
    <<"react", "vue", "angular", "node", "express", "django", "flask", "python",
     "javascript", "typescript", "java", "kotlin", "swift", "go", "rust", "c#",
     "csharp", "dotnet", "php", "laravel", "ruby", "rails", "mongodb", "mongo",
     "mysql", "postgresql", "firebase", "aws", "azure", "gcp", "docker",
     "kubernetes", "graphql", "rest", "api", "redux", "vuex", "mobx", "tensorflow",
     "pytorch", "keras", "scikit", "pandas", "numpy", "matplotlib", "seaborn",
     "dask", "spark", "hadoop", "kafka", "rabbitmq", "redis", "elasticsearch",
     "webpack", "babel", "vite", "rollup", "jest", "mocha", "chai", "cypress",
     "selenium", "puppeteer", "storybook", "tailwind", "bootstrap", "material",
     "sass", "less", "styled", "emotion", "nextjs", "nuxt", "gatsby", "svelte",
     "flutter", "react-native", "ionic", "electron", "pwa", "webassembly", "wasm",
     "deno", "bun", "groq", "mistral", "llama", "claude", "gpt", "openai",
     "huggingface", "transformers", "bert", "llm", "rag", "langchain", "pinecone",
     "database", "db", "connect", "connection", "config", "configuration", "setup",
     "install", "env", "environment", "variable">>

mongo_related == <<"database", "db", "connect", "connection", "config", "nosql">>
laravel_related == <<"php", "framework", "config", "env", "database", "db">>
connect_related == <<"config", "configuration", "env", "environment", "variable", "setting">>

\* for keyword in related_keywords: if keyword not in keywords: keywords.append(keyword)
RECURSIVE AppendMissing(_, _)
AppendMissing(kws, related) ==
    IF related = <<>> THEN kws
    ELSE AppendMissing(
           IF InList(Head(related), kws) THEN kws ELSE Append(kws, Head(related)),
           Tail(related))

\* for tech in tech_keywords: if tech in query_lower and tech not in keywords:
\* keywords.append(tech).  techs is the set in its iteration order; its
\* elements differ, so each is tested against the keywords before the loop.
AppendTech(kws, techs, query_lower) ==
    LET Wanted(tech) == Contains(query_lower, tech) /\ ~InList(tech, kws)
    IN kws \o SelectSeq(techs, Wanted)

\* the filter on the length alone
RECURSIVE FilterWordsKeepingStopWords(_)
FilterWordsKeepingStopWords(words) ==
    IF words = <<>> THEN <<>>
    ELSE (IF Len(Head(words)) > 2 THEN <<Head(words)>> ELSE <<>>)
         \o FilterWordsKeepingStopWords(Tail(words))

\* [word for word in words if word not in stop_words and len(word) > 2]
RECURSIVE FilterWords(_)
FilterWords(words) ==
    IF words = <<>> THEN <<>>
    ELSE (IF Head(words) \notin stop_words /\ Len(Head(words)) > 2 THEN <<Head(words)>> ELSE <<>>)
         \o FilterWords(Tail(words))

\* _extract_keywords(query) in a process whose hash seed is seed.  The name
\* query is rebound to the cleaned text at line 113, so query_lower (line 154)
\* is the cleaned text, not the text the caller passed.
ExtractKeywords(q, seed) ==
    LET cleaned == SubPunctuation(Lower(q))
        words == Split(cleaned)
        kw0 == FilterWords(words)
        query_lower == Lower(cleaned)
        kw1 == AppendTech(kw0, SetOrder(tech_keywords, seed), query_lower)
        kw2 == IF Contains(query_lower, "mongo") \/ Contains(query_lower, "mongodb")
               THEN AppendMissing(kw1, mongo_related) ELSE kw1
        kw3 == IF Contains(query_lower, "laravel")
               THEN AppendMissing(kw2, laravel_related) ELSE kw2
        kw4 == IF Contains(query_lower, "connect") \/ Contains(query_lower, "connection")
                  \/ Contains(query_lower, "setup")
               THEN AppendMissing(kw3, connect_related) ELSE kw3
    IN kw4

(***************************************************************************)
(* FileSelector._read_file                                                 *)
(***************************************************************************)

\* _read_file(file_path): the placeholder text, never the stored content
ReadFile(file_path) == "[File content will be fetched from MongoDB: " \o file_path \o "]"

\* tokens = len(content) // 4
TokenEstimate(content) == Len(content) \div 4

(***************************************************************************)
(* console.print of the rich library, as far as it can raise.  The text is *)
(* console markup: a tag is "[", a first character among a-z # / @, then   *)
(* the fewest characters other than "[" up to a "]".  A tag opens a style, *)
(* "[/name]" closes the nearest open tag of that name and "[/]" the last   *)
(* open tag; a closing tag with nothing to close raises MarkupError.  An   *)
(* odd number of backslashes before the "[" makes the tag plain text.      *)
(***************************************************************************)

\* the characters a tag can begin with
TagFirstChars == CharsOf(LowerCase) \cup {"#", "/", "@"}

\* the position of the "]" that ends the tag opened by the "[" at i, 0 when
\* the "[" at i opens no tag
TagEnd(s, i) ==
    IF i + 1 <= Len(s) /\ CharAt(s, i) = "[" /\ CharAt(s, i + 1) \in TagFirstChars
    THEN LET ends == {j \in (i + 2)..Len(s) :
                        /\ CharAt(s, j) = "]"
                        /\ \A k \in (i + 2)..(j - 1) : CharAt(s, k) \notin {"[", "]"}}
         IN IF ends = {} THEN 0 ELSE CHOOSE j \in ends : TRUE
    ELSE 0

\* the number of backslashes that directly precede position i
Backslashes(s, i) ==
    LET run == {n \in 0..(i - 1) : \A k \in (i - n)..(i - 1) : CharAt(s, k) = "\\"}
    IN CHOOSE n \in run : \A m \in run : m <= n

\* str.strip()
Strip(s) ==
    LET inked == {i \in 1..Len(s) : CharAt(s, i) \notin SpaceChars}
    IN IF inked = {} THEN ""
       ELSE SubSeq(s, CHOOSE i \in inked : \A j \in inked : i <= j,
                      CHOOSE i \in inked : \A j \in inked : j <= i)

\* the text before the first "=" (str.partition("=")[0]): a tag's name
TagName(text) ==
    LET eqs == {i \in 1..Len(text) : CharAt(text, i) = "="}
    IN IF eqs = {} THEN text
       ELSE SubSeq(text, 1, (CHOOSE i \in eqs : \A j \in eqs : i <= j) - 1)

\* pop_style: the stack of open tags without the nearest one named name
PopStyle(stack, name) ==
    LET at == CHOOSE i \in 1..Len(stack) :
                  stack[i] = name /\ \A j \in (i + 1)..Len(stack) : stack[j] # name
    IN SubSeq(stack, 1, at - 1) \o SubSeq(stack, at + 1, Len(stack))

\* whether rendering the markup s from position i on, with the tags of stack
\* open, raises MarkupError.  A closing tag's name is compared stripped and
\* in lower case (Style.normalize of a name that is no style definition).
RECURSIVE MarkupRaisesFrom(_, _, _)
MarkupRaisesFrom(s, i, stack) ==
    LET tags == {k \in i..Len(s) : TagEnd(s, k) # 0}
    IN IF tags = {} THEN FALSE
       ELSE LET k == CHOOSE t \in tags : \A u \in tags : t <= u
                j == TagEnd(s, k)
                text == SubSeq(s, k + 1, j - 1)
                closed == Lower(Strip(SubSeq(text, 2, Len(text))))
            IN IF Backslashes(s, k) % 2 = 1 THEN MarkupRaisesFrom(s, j + 1, stack)
               ELSE IF CharAt(text, 1) # "/"
                    THEN MarkupRaisesFrom(s, j + 1, Append(stack, TagName(text)))
               ELSE IF closed = ""
                    THEN stack = <<>>
                         \/ MarkupRaisesFrom(s, j + 1, SubSeq(stack, 1, Len(stack) - 1))
               ELSE ~InList(closed, stack)
                    \/ MarkupRaisesFrom(s, j + 1, PopStyle(stack, closed))

\* console.print(s) raises MarkupError
MarkupRaises(s) == MarkupRaisesFrom(s, 1, <<>>)

\* str(n) for n >= 0
RECURSIVE Str(_)
Str(n) ==
    IF n < 10 THEN CharAt(Digits, n + 1)
    ELSE Str(n \div 10) \o CharAt(Digits, (n % 10) + 1)

\* f"{score:.2f}" for a score >= 0 held in thousandths
FormatScore(score) ==
    LET hundredths == (score + 5) \div 10
    IN Str(hundredths \div 100) \o "." \o Str((hundredths % 100) \div 10) \o Str(hundredths % 10)

\* the text lines 67, 79 and 97 print when file_path is included
IncludingMessage(phase, file_path, score, tokens) ==
    IF phase = "tech"
    THEN "[green]Including technology-specific file: " \o file_path
         \o " (" \o Str(tokens) \o " tokens)"
    ELSE IF phase = "score"
    THEN "[green]Including scored file: " \o file_path
         \o " (score: " \o FormatScore(score) \o ", " \o Str(tokens) \o " tokens)"
    ELSE "[green]Including important file: " \o file_path
         \o " (" \o Str(tokens) \o " tokens)"

(***************************************************************************)
(* FileSelector._calculate_score.  The source computes in floats; the      *)
(* model computes in thousandths: Ln1000(n) is round(1000 * ln n), and a   *)
(* score s is held as floor(1000 * s) up to the rounding of the logarithm.  *)
(***************************************************************************)

Ln1000Table ==
    <<0, 693, 1099, 1386, 1609, 1792, 1946, 2079, 2197, 2303, 2398, 2485, 2565, 2639, 2708, 2773,
      2833, 2890, 2944, 2996, 3045, 3091, 3135, 3178, 3219, 3258, 3296, 3332, 3367, 3401, 3434, 3466,
      3497, 3526, 3555, 3584, 3611, 3638, 3664, 3689, 3714, 3738, 3761, 3784, 3807, 3829, 3850, 3871,
      3892, 3912, 3932, 3951, 3970, 3989, 4007, 4025, 4043, 4060, 4078, 4094, 4111, 4127, 4143, 4159,
      4174, 4190, 4205, 4220, 4234, 4248, 4263, 4277, 4290, 4304, 4317, 4331, 4344, 4357, 4369, 4382,
      4394, 4407, 4419, 4431, 4443, 4454, 4466, 4477, 4489, 4500, 4511, 4522, 4533, 4543, 4554, 4564,
      4575, 4585, 4595, 4605, 4615, 4625, 4635, 4644, 4654, 4663, 4673, 4682, 4691, 4700, 4710, 4718,
      4727, 4736, 4745, 4754, 4762, 4771, 4779, 4787, 4796, 4804, 4812, 4820, 4828, 4836, 4844, 4852,
      4860, 4868, 4875, 4883, 4890, 4898, 4905, 4913, 4920, 4927, 4934, 4942, 4949, 4956, 4963, 4970,
      4977, 4984, 4990, 4997, 5004, 5011, 5017, 5024, 5030, 5037, 5043, 5050, 5056, 5063, 5069, 5075>>

\* the largest argument the logarithm table covers
MaxLnArg == Len(Ln1000Table)

\* round(1000 * math.log(n))
Ln1000(n) == Ln1000Table[n]

\* floor of the square root, by bisection on lo..hi with lo * lo <= n < hi * hi
RECURSIVE ISqrtIn(_, _, _)
ISqrtIn(n, lo, hi) ==
    IF hi - lo <= 1 THEN lo
    ELSE LET mid == (lo + hi) \div 2
         IN IF mid * mid <= n THEN ISqrtIn(n, mid, hi) ELSE ISqrtIn(n, lo, mid)

ISqrt(n) == ISqrtIn(n, 0, 46341)

code_extensions ==
    {".py", ".js", ".jsx", ".ts", ".tsx", ".java", ".kt", ".swift", ".go", ".rs",
     ".cs", ".php", ".rb", ".c", ".cpp", ".h", ".hpp"}
config_extensions == {".json", ".yml", ".yaml", ".toml", ".ini", ".cfg", ".conf"}
doc_extensions == {".md", ".txt", ".rst", ".adoc"}
package_files ==
    {"package.json", "requirements.txt", "pyproject.toml", "setup.py", "pom.xml",
     "build.gradle", "gemfile"}
main_files == {"main.py", "index.js", "app.py", "server.js", "index.ts", "app.js"}

\* the path's part of the score with the bonuses of the code and the
\* documentation extensions exchanged
PathScoreDocFirst(file_path) ==
    LET file_name == Lower(Basename(file_path))
        ext == Lower(Suffix(file_path))
    IN (IF ext \in code_extensions THEN 1000
        ELSE IF ext \in config_extensions THEN 1500
        ELSE IF ext \in doc_extensions THEN 2000
        ELSE 0)
       + (IF Contains(file_name, "readme") THEN 3000 ELSE 0)
       + (IF file_name \in package_files THEN 2500 ELSE 0)
       + (IF file_name \in main_files THEN 2000 ELSE 0)

\* lines 247-271: the part of the score that depends on the path alone
PathScore(file_path) ==
    LET file_name == Lower(Basename(file_path))
        ext == Lower(Suffix(file_path))
    IN (IF ext \in code_extensions THEN 2000
        ELSE IF ext \in config_extensions THEN 1500
        ELSE IF ext \in doc_extensions THEN 1000
        ELSE 0)
       + (IF Contains(file_name, "readme") THEN 3000 ELSE 0)
       + (IF file_name \in package_files THEN 2500 ELSE 0)
       + (IF file_name \in main_files THEN 2000 ELSE 0)

\* the keyword's part of the score with the frequency term falling as the
\* count rises
KeywordScoreInverse(file_name, content_lower, keyword) ==
    LET count == Count(content_lower, Lower(keyword))
    IN (IF Contains(file_name, Lower(keyword)) THEN 3000 ELSE 0)
       + (IF count > 0 THEN 1500 \div count ELSE 0)

\* the body of the loop at lines 274-285 for one keyword
KeywordScore(file_name, content_lower, keyword) ==
    LET count == Count(content_lower, Lower(keyword))
    IN (IF Contains(file_name, Lower(keyword)) THEN 3000 ELSE 0)
       + (IF count > 0 THEN (Ln1000(count + 1) * 3) \div 2 ELSE 0)

RECURSIVE KeywordsScore(_, _, _)
KeywordsScore(file_name, content_lower, kws) ==
    IF kws = <<>> THEN 0
    ELSE KeywordScore(file_name, content_lower, Head(kws))
         + KeywordsScore(file_name, content_lower, Tail(kws))

\* lines 287-291: score / sqrt(ln(len(content) + 1)) when the logarithm is > 0
Normalize(score, content) ==
    LET size_factor == Ln1000(Len(content) + 1)
    IN IF size_factor > 0 THEN (score * 10000) \div ISqrt(size_factor * 100000) ELSE score

\* _calculate_score(file_path, content, keywords), in thousandths
CalculateScore(file_path, content, kws) ==
    Normalize(PathScore(file_path)
              + KeywordsScore(Lower(Basename(file_path)), Lower(content), kws),
              content)

(***************************************************************************)
(* FileSelector._get_technology_specific_files                             *)
(***************************************************************************)

tech_patterns ==
    <<[tech |-> "react", patterns |-> <<"react", "jsx", "tsx", "component">>],
      [tech |-> "vue", patterns |-> <<"vue", "vuex", "nuxt">>],
      [tech |-> "angular", patterns |-> <<"angular", "ng">>],
      [tech |-> "node", patterns |-> <<"node", "express", "server\\.js">>],
      [tech |-> "python", patterns |-> <<"\\.py$", "flask", "django", "requirements\\.txt">>],
      [tech |-> "django", patterns |-> <<"django", "urls\\.py", "views\\.py", "models\\.py">>],
      [tech |-> "flask", patterns |-> <<"flask", "app\\.py", "routes\\.py">>],
      [tech |-> "javascript", patterns |-> <<"\\.js$", "\\.jsx$">>],
      [tech |-> "typescript", patterns |-> <<"\\.ts$", "\\.tsx$", "tsconfig">>],
      [tech |-> "groq", patterns |-> <<"groq", "llm", "ai">>],
      [tech |-> "mistral", patterns |-> <<"mistral", "llm", "ai">>],
      [tech |-> "llama", patterns |-> <<"llama", "llm", "ai">>],
      [tech |-> "claude", patterns |-> <<"claude", "anthropic", "llm", "ai">>],
      [tech |-> "gpt", patterns |-> <<"gpt", "openai", "llm", "ai">>],
      [tech |-> "langchain", patterns |-> <<"langchain", "llm", "ai", "rag">>],
      [tech |-> "docker", patterns |-> <<"docker", "dockerfile", "compose">>],
      [tech |-> "kubernetes", patterns |-> <<"k8s", "kubernetes", "helm">>],
      [tech |-> "aws", patterns |-> <<"aws", "amazon", "lambda", "s3", "ec2">>],
      [tech |-> "database", patterns |-> <<"db", "database", "sql", "mongo", "postgres", "\\.env", "config">>],
      [tech |-> "api", patterns |-> <<"api", "rest", "graphql", "endpoint">>],
      [tech |-> "auth", patterns |-> <<"auth", "login", "jwt", "oauth">>],
      [tech |-> "test", patterns |-> <<"test", "spec", "jest", "mocha", "cypress">>],
      [tech |-> "mongodb", patterns |-> <<"mongo", "mongodb", "nosql", "database\\.php", "\\.env", "config">>],
      [tech |-> "laravel", patterns |-> <<"laravel", "\\.env", "config", "database\\.php", "composer\\.json">>],
      [tech |-> "connect", patterns |-> <<"\\.env", "config", "database", "connection", "setup">>]>>

important_config_files ==
    <<".env", ".env.example", "database.php", "config/database.php", "config/app.php",
      "composer.json">>

\* the pattern with its backslash escapes removed
RECURSIVE Unescape(_)
Unescape(p) ==
    IF p = "" THEN ""
    ELSE IF CharAt(p, 1) = "\\" THEN CharAt(p, 2) \o Unescape(SubSeq(p, 3, Len(p)))
    ELSE CharAt(p, 1) \o Unescape(Tail(p))

\* re.search(pattern, s) for the patterns of the table: literal text with
\* escaped dots, anchored at the end of s when the pattern ends with $
ReSearch(pattern, s) ==
    IF EndsWith(pattern, "$")
    THEN EndsWith(s, Unescape(SubSeq(pattern, 1, Len(pattern) - 1)))
    ELSE Contains(s, Unescape(pattern))

\* line 340: the technology, or its alias, is mentioned in the query
TechMentioned(tech, query_lower) ==
    \/ Contains(query_lower, tech)
    \/ (tech = "mongodb" /\ Contains(query_lower, "mongo"))
    \/ (tech = "connect" /\ (Contains(query_lower, "connect")
                              \/ Contains(query_lower, "connection")
                              \/ Contains(query_lower, "setup")))

\* lines 342-347: the files matching some pattern, in the order of all_files
RECURSIVE MatchingFiles(_, _)
MatchingFiles(patterns, files) ==
    IF files = <<>> THEN <<>>
    ELSE (IF \E i \in 1..Len(patterns) : ReSearch(patterns[i], Lower(Head(files)))
          THEN <<Head(files)>> ELSE <<>>)
         \o MatchingFiles(patterns, Tail(files))

\* lines 339-347 over the technologies from index i on
RECURSIVE TechMatches(_, _, _)
TechMatches(i, query_lower, files) ==
    IF i > Len(tech_patterns) THEN <<>>
    ELSE (IF TechMentioned(tech_patterns[i].tech, query_lower)
          THEN MatchingFiles(tech_patterns[i].patterns, files) ELSE <<>>)
         \o TechMatches(i + 1, query_lower, files)

\* line 353
IsImportantConfig(file_path) ==
    \/ InList(Basename(file_path), important_config_files)
    \/ \E i \in 1..Len(important_config_files) : Contains(file_path, important_config_files[i])

\* lines 351-354
RECURSIVE ImportantConfigs(_)
ImportantConfigs(files) ==
    IF files = <<>> THEN <<>>
    ELSE (IF IsImportantConfig(Head(files)) THEN <<Head(files)>> ELSE <<>>)
         \o ImportantConfigs(Tail(files))


\* os.path.getsize raises for a path that is not a file of the local disk
NoFile == -1

\* if os.path.getsize(full_path) > 1000000
SizeCeiling == 1000000

(***************************************************************************)
(* Inputs of the model                                                     *)
(***************************************************************************)

\* the longest all_files list drawn from PathPool
MaxListLen == 2

\* max_files ranges over 0..MaxFilesArg, and the scenario's value
MaxFilesArg == 1

\* the paths the file lists are built from
PathPool == <<"README.md", ".env", "config/database.php">>

\* the scenario of the specification's testable properties
ScenarioQuery == "how do I connect to mongodb"
ScenarioFiles == <<"README.md", "config/database.php", ".env", "src/app.py", "image.png">>
ScenarioBudgets == [max_files |-> 5, max_tokens |-> 100000]

\* a repository with a directory whose name ends in "[": the README's path
\* reads as a closing tag of console markup
MarkupFiles == <<".env", "docs[/v1]/README.md">>

\* a repository whose first file has a block-listed extension and a name
\* that a technology pattern ("mongo") matches
BlockedFiles == <<"docs/mongo.pdf", "README.md", "src/app.py">>

\* a repository with two files of equal score (no bonus of the path, the
\* same content length) around one that scores more
TiedFiles == <<"LICENSE", "src/app.py", "Makefile">>

Paths ==
    Elems(PathPool) \cup Elems(ScenarioFiles) \cup Elems(MarkupFiles) \cup Elems(BlockedFiles)
        \cup Elems(TiedFiles)

\* the lists of at most n paths of the pool, repetitions included
RECURSIVE ListsUpTo(_)
ListsUpTo(n) ==
    IF n = 0 THEN {<<>>}
    ELSE LET shorter == ListsUpTo(n - 1)
         IN shorter \cup {Append(l, PathPool[i]) : l \in shorter, i \in 1..Len(PathPool)}

FileLists ==
    ListsUpTo(MaxListLen) \cup {ScenarioFiles, MarkupFiles, BlockedFiles, TiedFiles}

\* a query that mentions technologies, one that shares no keyword with any
\* file's name or content, and the empty query
Queries == {ScenarioQuery, "Zebra stripes?", ""}

MaxFilesArgs == 0..MaxFilesArg \cup {ScenarioBudgets.max_files}

\* token budgets: nothing, one placeholder of 13 tokens, the default
TokenBudgets == {0, 13, ScenarioBudgets.max_tokens}

\* what os.path.getsize reports under repo_path: no local files at all (the
\* repository lives in the store, not on disk), every file present and small,
\* or present with README.md above the ceiling
LocalSizes ==
    {[p \in Paths |-> NoFile],
     [p \in Paths |-> 1],
     [p \in Paths |-> IF p = "README.md" THEN SizeCeiling + 1 ELSE SizeCeiling]}

\* the contents a stored file may have: empty, 1 token, 30 tokens
EmptyContent == ""
ShortContent == "x=1\n"
LongContent ==
    "0123456789012345678901234567890123456789012345678901234567890123456789"
    \o "01234567890123456789012345678901234567890123456789"
Contents == {EmptyContent, ShortContent, LongContent}

NoDup(l) == \A i, j \in 1..Len(l) : l[i] = l[j] => i = j

\* the files collection of one repository: one document per path, every
\* document with the same kind of content
Repositories ==
    {[i \in 1..Len(l) |-> [path |-> l[i], content |-> c]] :
        l \in {f \in FileLists : NoDup(f)}, c \in Contents}

(***************************************************************************)
(* Values computed once per input: the operators above, tabulated over the *)
(* inputs of the model                                                     *)
(***************************************************************************)

\* the function f with its values computed and kept (a function written
\* [x \in S |-> e] computes e again whenever it is applied)
Tabulated(f) == f @@ <<>>

\* _extract_keywords(query) per query and hash seed
KeywordsTable ==
    Tabulated([q \in Queries |->
        Tabulated([seed \in 0..(HashSeeds - 1) |-> ExtractKeywords(q, seed)])])

KeywordLists == {KeywordsTable[q][seed] : q \in Queries, seed \in 0..(HashSeeds - 1)}

\* _calculate_score(file_path, _read_file(file_path), keywords) per keyword
\* list and path
ScoreTable ==
    Tabulated([k \in KeywordLists |->
        Tabulated([p \in Paths |-> CalculateScore(p, ReadFile(p), k)])])

\* lines 214-219: the score of file_path as _score_files computes it, from
\* the content _read_file returns
FileScore(file_path, kws) == ScoreTable[kws][file_path]

\* tech_files before list(set(...)), first occurrences in the order of
\* appending, per query and file list
TechFilesTable ==
    Tabulated([q \in Queries |->
        Tabulated([l \in FileLists |->
            Dedup(TechMatches(1, Lower(q), l) \o ImportantConfigs(l))])])

(***************************************************************************)
(* FileSelector._score_files                                               *)
(***************************************************************************)

binary_extensions ==
    {".png", ".jpg", ".jpeg", ".gif", ".ico", ".svg", ".woff", ".woff2", ".ttf", ".eot", ".mp3", ".mp4", ".avi", ".mov", ".pdf",
     ".zip", ".tar", ".gz", ".rar", ".7z", ".bin", ".exe", ".dll", ".so", ".dylib", ".class", ".pyc", ".pyd", ".pyo"}

\* the filters of _score_files without the one on the extension
ScorableAnyExtension(file_path, sizes) ==
    /\ sizes[file_path] # NoFile
    /\ sizes[file_path] <= SizeCeiling
    /\ ReadFile(file_path) # ""

\* the filters of _score_files without the one on the size
ScorableAnySize(file_path, sizes) ==
    /\ sizes[file_path] # NoFile
    /\ Lower(Suffix(file_path)) \notin binary_extensions
    /\ ReadFile(file_path) # ""

\* lines 194-216: whether file_path passes the size and extension filters and
\* is read and scored.  localSize[p] is the size os.path.getsize reports for
\* repo_path/p, NoFile when it raises; the exception is caught (line 200).
Scorable(file_path, sizes) ==
    /\ sizes[file_path] # NoFile
    /\ sizes[file_path] <= SizeCeiling
    /\ Lower(Suffix(file_path)) \notin binary_extensions
    /\ ReadFile(file_path) # ""

\* the paths _score_files reads, one entry per read, in the order of files
RECURSIVE ScoreReads(_, _)
ScoreReads(files, sizes) ==
    IF files = <<>> THEN <<>>
    ELSE (IF Scorable(Head(files), sizes) THEN <<Head(files)>> ELSE <<>>)
         \o ScoreReads(Tail(files), sizes)

\* the list scores before it is sorted
RECURSIVE Scores(_, _, _)
Scores(files, kws, sizes) ==
    IF files = <<>> THEN <<>>
    ELSE (IF Scorable(Head(files), sizes)
          THEN <<[path |-> Head(files),
                  score |-> FileScore(Head(files), kws)]>>
          ELSE <<>>)
         \o Scores(Tail(files), kws, sizes)

\* the insertion that puts x before the entries of its own score
RECURSIVE InsertDescBeforeEqual(_, _)
InsertDescBeforeEqual(sorted, x) ==
    IF sorted = <<>> THEN <<x>>
    ELSE IF Head(sorted).score > x.score
         THEN <<Head(sorted)>> \o InsertDescBeforeEqual(Tail(sorted), x)
    ELSE <<x>> \o sorted

\* sorted(scores, key=lambda x: x[1], reverse=True): a stable sort, equal
\* scores keep their order; x goes after every entry whose score is >= x's
RECURSIVE InsertDesc(_, _)
InsertDesc(sorted, x) ==
    IF sorted = <<>> THEN <<x>>
    ELSE IF Head(sorted).score >= x.score THEN <<Head(sorted)>> \o InsertDesc(Tail(sorted), x)
    ELSE <<x>> \o sorted

RECURSIVE SortDesc(_)
SortDesc(xs) ==
    IF xs = <<>> THEN <<>>
    ELSE InsertDesc(SortDesc(SubSeq(xs, 1, Len(xs) - 1)), xs[Len(xs)])

\* _score_files(files, keywords)
ScoreFiles(files, kws, sizes) == SortDesc(Scores(files, kws, sizes))

(***************************************************************************)
(* State                                                                   *)
(***************************************************************************)
vars ==
    <<mode, query, all_files, max_files, max_tokens, localSize, db_files, hashseed,
      pc, idx, keywords, scored_files, tech_files, important_files, relevant_files,
      total_tokens, reads, calls, first_result, files_dict, outcome,
      sc_file_path, sc_content, sc_keywords, sc_score, sc_before,
      handler, mongodb, call, cli>>

\* the variables of the repository handler and the store, which no step of
\* the selection, of the command or of the scoring changes
handling == <<handler, mongodb, call, cli>>

\* the variables of the scoring of one file, which no step of the selection
\* or of the command changes
scoring == <<sc_file_path, sc_content, sc_keywords, sc_score, sc_before>>

inputs == <<mode, query, max_files, max_tokens, localSize, db_files, scoring, handling>>
locals == <<keywords, scored_files, tech_files, important_files>>

NoResult == [files |-> <<>>, total |-> -1]

\* Python's None
None == "None"

\* no command has run: REPO_ID = None (main.py 28), no last_repo.txt
NoCli ==
    [REPO_ID |-> None, last_repo |-> None, command |-> "", repo_url |-> None,
     repo_id |-> None, owner |-> None, repo |-> None, force |-> FALSE,
     target_repo_id |-> None, status |-> ""]

\* no GitHandler object, an empty store, no call made
NoHandler ==
    [repo_url |-> None, owner |-> None, repo_name |-> None, repo |-> None, repo_id |-> None]
EmptyStore == [repositories |-> {}, files |-> {}, ids |-> 0]
NoCall ==
    [name |-> "", args |-> <<>>, result |-> [kind |-> "", value |-> None],
     github_requests |-> 0, store_queries |-> 0]
NoReads == [p \in Paths |-> 0]

\* the keys of relevant_files, in insertion order
Keys(d) == [i \in 1..Len(d) |-> d[i].path]

\* file_path in relevant_files
HasKey(d, file_path) == \E i \in 1..Len(d) : d[i].path = file_path

\* the assignment with the content cut to its first 40 characters
DictSetTruncated(d, file_path, content, phase) ==
    IF \E i \in 1..Len(d) : d[i].path = file_path
    THEN [i \in 1..Len(d) |->
            IF d[i].path = file_path
            THEN [d[i] EXCEPT !.content = SubSeq(content, 1, 40)] ELSE d[i]]
    ELSE Append(d, [path |-> file_path, content |-> SubSeq(content, 1, 40),
                    phase |-> phase])

\* relevant_files[file_path] = content: a new key goes last, an old key keeps
\* its place and takes the new value
DictSet(d, file_path, content, phase) ==
    IF HasKey(d, file_path)
    THEN [i \in 1..Len(d) |->
            IF d[i].path = file_path THEN [d[i] EXCEPT !.content = content] ELSE d[i]]
    ELSE Append(d, [path |-> file_path, content |-> content, phase |-> phase])

\* sum of len(content) // 4 over the entries
RECURSIVE SumTokens(_)
SumTokens(d) == IF d = <<>> THEN 0 ELSE TokenEstimate(Head(d).content) + SumTokens(Tail(d))

\* what get_relevant_files returns: (relevant_files, total_tokens)
Result == [files |-> [i \in 1..Len(relevant_files) |->
                        [path |-> relevant_files[i].path,
                         content |-> relevant_files[i].content]],
           total |-> total_tokens]

Init ==
    /\ mode \in {"direct", "chat"}
    /\ query \in Queries
    /\ max_files \in MaxFilesArgs
    /\ max_tokens \in TokenBudgets
    /\ localSize \in LocalSizes
    /\ hashseed \in 0..(HashSeeds - 1)
    /\ IF mode = "direct"
       THEN /\ all_files \in FileLists
            /\ db_files = <<>>
            /\ pc = "start"
       ELSE /\ all_files = <<>>
            /\ db_files \in Repositories
            /\ pc = "chat_list"
    /\ idx = 1
    /\ keywords = <<>>
    /\ scored_files = <<>>
    /\ tech_files = <<>>
    /\ important_files = <<>>
    /\ relevant_files = <<>>
    /\ total_tokens = 0
    /\ reads = NoReads
    /\ calls = 0
    /\ first_result = NoResult
    /\ files_dict = <<>>
    /\ outcome = "running"
    /\ sc_file_path = ""
    /\ sc_content = ""
    /\ sc_keywords = <<>>
    /\ sc_score = <<>>
    /\ sc_before = <<>>
    /\ handler = NoHandler
    /\ mongodb = EmptyStore
    /\ call = NoCall
    /\ cli = NoCli

(***************************************************************************)
(* FileSelector.get_relevant_files                                         *)
(***************************************************************************)

\* _get_technology_specific_files returning tech_files itself, without
\* list(set(...))
GetTechnologySpecificFilesRepeated(q, all, seed) ==
    TechMatches(1, Lower(q), all) \o ImportantConfigs(all)

\* _get_technology_specific_files without the loop over the always-important
\* configuration files (lines 350-354)
GetTechnologySpecificFilesMatchedOnly(q, all, seed) ==
    SetOrder(Dedup(TechMatches(1, Lower(q), all)), seed)

\* _get_technology_specific_files(query, all_files): list(set(tech_files)),
\* in the set's iteration order under the process's hash seed
GetTechnologySpecificFiles(q, all, seed) == SetOrder(TechFilesTable[q][all], seed)

\* reads with one more read of every entry of the list ps
RECURSIVE CountReads(_, _)
CountReads(r, ps) ==
    IF ps = <<>> THEN r
    ELSE CountReads([r EXCEPT ![Head(ps)] = @ + 1], Tail(ps))

\* lines 46-57: the keywords, the scored list, the empty result and the
\* technology files
Start ==
    /\ pc = "start"
    /\ keywords' = KeywordsTable[query][hashseed]
    /\ scored_files' = ScoreFiles(all_files, keywords', localSize)
    /\ reads' = CountReads(NoReads, ScoreReads(all_files, localSize))
    /\ relevant_files' = <<>>
    /\ total_tokens' = 0
    /\ tech_files' = GetTechnologySpecificFiles(query, all_files, hashseed)
    /\ important_files' = <<>>
    /\ calls' = calls + 1
    /\ idx' = 1
    /\ pc' = "tech"
    /\ UNCHANGED <<inputs, all_files, hashseed, first_result, files_dict, outcome>>

\* the phases' condition without the test "file_path not in relevant_files"
EligibleAgain(phase, file_path) ==
    /\ phase = "tech" => InList(file_path, all_files)
    /\ Len(relevant_files) < max_files

\* the budget test always passing
FitsAlways(content) == TRUE

\* the condition that lets a phase look at file_path: line 59 in the
\* technology phase, lines 71 and 90 in the other two
Eligible(phase, file_path) ==
    /\ IF phase = "tech" THEN InList(file_path, all_files)
       ELSE ~HasKey(relevant_files, file_path)
    /\ Len(relevant_files) < max_files

\* lines 64-66, 76-78, 94-96: the budget test on the file's estimate
Fits(content) == total_tokens + TokenEstimate(content) <= max_tokens

\* one iteration of a phase's loop (lines 59-67, 71-79, 90-97) on file_path;
\* score is the file's score in the score phase.  The inclusion is printed
\* after it is made, and the print can raise, which ends the call.
Consider(phase, file_path, score) ==
    IF Eligible(phase, file_path)
    THEN LET content == ReadFile(file_path)
             tokens == TokenEstimate(content)
         IN /\ reads' = [reads EXCEPT ![file_path] = @ + 1]
            /\ IF content # "" /\ Fits(content)
               THEN /\ relevant_files' = DictSet(relevant_files, file_path, content, phase)
                    /\ total_tokens' = total_tokens + tokens
                    /\ pc' = IF MarkupRaises(IncludingMessage(phase, file_path, score, tokens))
                             THEN "raised" ELSE pc
               ELSE UNCHANGED <<relevant_files, total_tokens, pc>>
    ELSE UNCHANGED <<relevant_files, total_tokens, reads, pc>>

\* lines 58-67: one iteration of the loop over tech_files
TechStep ==
    /\ pc = "tech"
    /\ idx <= Len(tech_files)
    /\ Consider("tech", tech_files[idx], 0)
    /\ idx' = idx + 1
    /\ UNCHANGED <<inputs, all_files, hashseed, locals, calls, first_result,
                   files_dict, outcome>>

\* the loop over tech_files ends
TechDone ==
    /\ pc = "tech"
    /\ idx > Len(tech_files)
    /\ pc' = "score"
    /\ idx' = 1
    /\ UNCHANGED <<inputs, all_files, hashseed, locals, relevant_files, total_tokens,
                   reads, calls, first_result, files_dict, outcome>>

\* lines 70-79: one iteration of the loop over scored_files
ScoreStep ==
    /\ pc = "score"
    /\ idx <= Len(scored_files)
    /\ Consider("score", scored_files[idx].path, scored_files[idx].score)
    /\ idx' = idx + 1
    /\ UNCHANGED <<inputs, all_files, hashseed, locals, calls, first_result,
                   files_dict, outcome>>

\* the test of lines 82-87 without the README clause
IsImportantFileNoReadme(f) ==
    \/ Lower(f) = "package.json"
    \/ Lower(f) = "requirements.txt"

\* lines 82-87: f.lower().endswith('readme.md') or f.lower() == 'package.json'
\* or f.lower() == 'requirements.txt'
IsImportantFile(f) ==
    \/ EndsWith(Lower(f), "readme.md")
    \/ Lower(f) = "package.json"
    \/ Lower(f) = "requirements.txt"

RECURSIVE ImportantFiles(_)
ImportantFiles(files) ==
    IF files = <<>> THEN <<>>
    ELSE (IF IsImportantFile(Head(files)) THEN <<Head(files)>> ELSE <<>>)
         \o ImportantFiles(Tail(files))

\* the loop over scored_files ends; lines 82-87 build important_files
ScoreDone ==
    /\ pc = "score"
    /\ idx > Len(scored_files)
    /\ important_files' = ImportantFiles(all_files)
    /\ pc' = "pinned"
    /\ idx' = 1
    /\ UNCHANGED <<inputs, all_files, hashseed, keywords, scored_files, tech_files,
                   relevant_files, total_tokens, reads, calls, first_result,
                   files_dict, outcome>>

\* lines 89-97: one iteration of the loop over important_files
PinnedStep ==
    /\ pc = "pinned"
    /\ idx <= Len(important_files)
    /\ Consider("pinned", important_files[idx], 0)
    /\ idx' = idx + 1
    /\ UNCHANGED <<inputs, all_files, hashseed, locals, calls, first_result,
                   files_dict, outcome>>

\* lines 99-100: return relevant_files, total_tokens
Return ==
    /\ pc = "pinned"
    /\ idx > Len(important_files)
    /\ pc' = "returned"
    /\ first_result' = IF calls = 1 THEN Result ELSE first_result
    /\ UNCHANGED <<inputs, all_files, hashseed, idx, locals, relevant_files, total_tokens,
                   reads, calls, files_dict, outcome>>

\* the same call is made once more, by a process of its own (every command
\* of the CLI is a process): a new hash seed, the same arguments
CallAgain ==
    /\ mode = "direct"
    /\ pc = "returned"
    /\ calls = 1
    /\ hashseed' \in 0..(HashSeeds - 1)
    /\ pc' = "start"
    /\ UNCHANGED <<inputs, all_files, idx, locals, relevant_files, total_tokens, reads,
                   calls, first_result, files_dict, outcome>>

(***************************************************************************)
(* main.chat_with_codebase, from the listing of the files on               *)
(***************************************************************************)

\* MongoDBHandler.get_all_files: the paths of the repository's documents
DbPaths(db) == [i \in 1..Len(db) |-> db[i].path]

\* MongoDBHandler.get_file_content: the document's content, None when there
\* is no document for the path
DbContent(db, file_path) ==
    IF \E i \in 1..Len(db) : db[i].path = file_path
    THEN db[CHOOSE i \in 1..Len(db) : db[i].path = file_path].content
    ELSE None

\* lines 135-139: the files are listed; no files ends the command
ChatListFiles ==
    /\ pc = "chat_list"
    /\ all_files' = DbPaths(db_files)
    /\ IF all_files' = <<>>
       THEN pc' = "exited" /\ outcome' = "no_files"
       ELSE pc' = "start" /\ outcome' = outcome
    /\ UNCHANGED <<inputs, hashseed, idx, locals, relevant_files, total_tokens, reads,
                   calls, first_result, files_dict>>

\* lines 159-163: the stored content of every selected path that has some
RECURSIVE PrepareFiles(_, _)
PrepareFiles(selected, db) ==
    IF selected = <<>> THEN <<>>
    ELSE LET content == DbContent(db, Head(selected).path)
         IN (IF content # None /\ content # ""
             THEN <<[path |-> Head(selected).path, content |-> content]>> ELSE <<>>)
            \o PrepareFiles(Tail(selected), db)

\* lines 152-163: an empty selection ends the command; otherwise files_dict
\* is filled from the store
ChatPrepare ==
    /\ mode = "chat"
    /\ pc = "returned"
    /\ IF relevant_files = <<>>
       THEN /\ pc' = "exited"
            /\ outcome' = "no_relevant_files"
            /\ files_dict' = files_dict
       ELSE /\ pc' = "chat_send"
            /\ outcome' = outcome
            /\ files_dict' = PrepareFiles(relevant_files, db_files)
    /\ UNCHANGED <<inputs, all_files, hashseed, idx, locals, relevant_files, total_tokens,
                   reads, calls, first_result>>

\* lines 166-180: the request is made with files_dict; the client answers,
\* or raises and the command ends in the except branch
ChatSend ==
    /\ pc = "chat_send"
    /\ pc' = "exited"
    /\ outcome' \in {"responded", "error"}
    /\ UNCHANGED <<inputs, all_files, hashseed, idx, locals, relevant_files, total_tokens,
                   reads, calls, first_result, files_dict>>

\* lines 178-180: an exception of the try block, the selector's included,
\* is printed as an error and the command exits with status 1
ChatExcept ==
    /\ mode = "chat"
    /\ pc = "raised"
    /\ pc' = "exited"
    /\ outcome' = "error"
    /\ UNCHANGED <<inputs, all_files, hashseed, idx, locals, relevant_files, total_tokens,
                   reads, calls, first_result, files_dict>>

Next ==
    \/ Start
    \/ TechStep
    \/ TechDone
    \/ ScoreStep
    \/ ScoreDone
    \/ PinnedStep
    \/ Return
    \/ CallAgain
    \/ ChatListFiles
    \/ ChatPrepare
    \/ ChatSend
    \/ ChatExcept

Spec == Init /\ [][Next]_vars

(***************************************************************************)
(* FileSelector._calculate_score on its own: one file is scored, an        *)
(* occurrence of a keyword is written over a part of its content, and it   *)
(* is scored again.                                                        *)
(***************************************************************************)

\* the longest content, in words of ContentWords
MaxWords == 3

\* the pieces the contents are made of
ContentWords == <<"mongo", "db", "x ", "DB">>

\* the contents of at most n words
RECURSIVE ContentsUpTo(_)
ContentsUpTo(n) ==
    IF n = 0 THEN {""}
    ELSE LET shorter == ContentsUpTo(n - 1)
         IN shorter \cup {c \o ContentWords[i] : c \in shorter, i \in 1..Len(ContentWords)}

ScoredContents == ContentsUpTo(MaxWords)

\* keyword lists as _extract_keywords makes them: lower case, repetitions kept
ScoredKeywords == {<<"mongo">>, <<"db", "mongo">>, <<"mongo", "mongo">>}

\* a path with a score of its own, one whose name holds a keyword, one with
\* neither
ScoredPaths == {"README.md", "src/mongo.py", "notes"}

\* content with the characters from position i on overwritten by word
Overwrite(content, i, word) ==
    SubSeq(content, 1, i - 1) \o word \o SubSeq(content, i + Len(word), Len(content))

\* the contents of the same length that differ from content by one more
\* occurrence of a keyword of kws, and hold no fewer of any keyword
MoreOccurrences(content, kws) ==
    LET written == UNION {{Overwrite(content, i, kws[n]) :
                              i \in 1..(Len(content) - Len(kws[n]) + 1)} :
                          n \in 1..Len(kws)}
    IN {b \in written :
            /\ \A n \in 1..Len(kws) :
                  Count(Lower(b), Lower(kws[n])) >= Count(Lower(content), Lower(kws[n]))
            /\ \E n \in 1..Len(kws) :
                  Count(Lower(b), Lower(kws[n])) > Count(Lower(content), Lower(kws[n]))}

ScoreInit ==
    /\ mode = "score"
    /\ query = ""
    /\ max_files = 0
    /\ max_tokens = 0
    /\ localSize = [p \in Paths |-> NoFile]
    /\ hashseed = 0
    /\ all_files = <<>>
    /\ db_files = <<>>
    /\ pc = "idle"
    /\ idx = 1
    /\ keywords = <<>>
    /\ scored_files = <<>>
    /\ tech_files = <<>>
    /\ important_files = <<>>
    /\ relevant_files = <<>>
    /\ total_tokens = 0
    /\ reads = NoReads
    /\ calls = 0
    /\ first_result = NoResult
    /\ files_dict = <<>>
    /\ outcome = "running"
    /\ sc_file_path \in ScoredPaths
    /\ sc_content \in ScoredContents
    /\ sc_keywords \in ScoredKeywords
    /\ sc_score = <<>>
    /\ sc_before = <<>>
    /\ handler = NoHandler
    /\ mongodb = EmptyStore
    /\ call = NoCall
    /\ cli = NoCli

selection ==
    <<mode, query, all_files, max_files, max_tokens, localSize, db_files, hashseed,
      pc, idx, keywords, scored_files, tech_files, important_files, relevant_files,
      total_tokens, reads, calls, first_result, files_dict, outcome, handling>>

\* _calculate_score(file_path, content, keywords) is called and returns
Calculate ==
    /\ mode = "score"
    /\ sc_score = <<>>
    /\ sc_score' = <<CalculateScore(sc_file_path, sc_content, sc_keywords)>>
    /\ UNCHANGED <<selection, sc_file_path, sc_content, sc_keywords, sc_before>>

\* the file's content gets one more occurrence of a keyword at the same length
AddOccurrence ==
    /\ mode = "score"
    /\ sc_score # <<>>
    /\ \E b \in MoreOccurrences(sc_content, sc_keywords) : sc_content' = b
    /\ sc_before' = sc_score
    /\ sc_score' = <<>>
    /\ UNCHANGED <<selection, sc_file_path, sc_keywords>>

ScoreNext ==
    \/ Calculate
    \/ AddOccurrence

ScoreSpec == ScoreInit /\ [][ScoreNext]_vars

(***************************************************************************)
(* FileSelector._calculate_score on two paths that differ in the extension *)
(* alone: a file with a documentation extension is scored, then the file   *)
(* of the same name, content and keywords with a code extension.           *)
(***************************************************************************)

\* the names before the extension
Stems == {"notes", "docs/README", "requirements", "main", "src/setup", "txt2rst"}

\* contents: none, one without and one with occurrences of the keywords
ExtensionContents == {"", "plain text", "mongo db and mongo txt"}

\* keyword lists; "txt" and "rst" are query words like any other
ExtensionKeywords == {<<>>, <<"mongo">>, <<"txt", "mongo">>, <<"rst">>}

\* the path without its extension
Stem(file_path) == SubSeq(file_path, 1, Len(file_path) - Len(Suffix(file_path)))

ExtensionInit ==
    /\ mode = "extension"
    /\ query = ""
    /\ max_files = 0
    /\ max_tokens = 0
    /\ localSize = [p \in Paths |-> NoFile]
    /\ hashseed = 0
    /\ all_files = <<>>
    /\ db_files = <<>>
    /\ pc = "idle"
    /\ idx = 1
    /\ keywords = <<>>
    /\ scored_files = <<>>
    /\ tech_files = <<>>
    /\ important_files = <<>>
    /\ relevant_files = <<>>
    /\ total_tokens = 0
    /\ reads = NoReads
    /\ calls = 0
    /\ first_result = NoResult
    /\ files_dict = <<>>
    /\ outcome = "running"
    /\ sc_file_path \in {stem \o ext : stem \in Stems, ext \in doc_extensions}
    /\ sc_content \in ExtensionContents
    /\ sc_keywords \in ExtensionKeywords
    /\ sc_score = <<>>
    /\ sc_before = <<>>
    /\ handler = NoHandler
    /\ mongodb = EmptyStore
    /\ call = NoCall
    /\ cli = NoCli

\* _calculate_score(file_path, content, keywords) is called and returns
CalculateForPath ==
    /\ mode = "extension"
    /\ sc_score = <<>>
    /\ sc_score' = <<CalculateScore(sc_file_path, sc_content, sc_keywords)>>
    /\ UNCHANGED <<selection, sc_file_path, sc_content, sc_keywords, sc_before>>

\* the next file scored is the one with a code extension in place of the
\* documentation extension
TakeCodeExtension ==
    /\ mode = "extension"
    /\ sc_score # <<>>
    /\ sc_before = <<>>
    /\ \E ext \in code_extensions : sc_file_path' = Stem(sc_file_path) \o ext
    /\ sc_before' = <<sc_score[1], sc_file_path>>
    /\ sc_score' = <<>>
    /\ UNCHANGED <<selection, sc_content, sc_keywords>>

ExtensionNext ==
    \/ CalculateForPath
    \/ TakeCodeExtension

ExtensionSpec == ExtensionInit /\ [][ExtensionNext]_vars

(***************************************************************************)
(* KeywordSpec: FileSelector._extract_keywords alone, on queries built     *)
(* from a pool of words.                                                   *)
(***************************************************************************)

\* the most words a query has
MaxQueryWords == 2

\* a plain word, one in capitals with punctuation, stop words, technology
\* and expansion terms of two letters, a technology name, a plain word
\* that has a technology term ("rest") inside, and two technology terms
\* with punctuation in them
QueryWords ==
    <<"zebra", "Stripes?", "the", "use", "db", "go", "MongoDB", "interesting", "C#",
      "react-native">>

\* the queries of at most n words, a word repeated included
RECURSIVE QueriesUpTo(_)
QueriesUpTo(n) ==
    IF n = 0 THEN {""}
    ELSE LET shorter == QueriesUpTo(n - 1)
         IN shorter \cup {IF q = "" THEN QueryWords[i] ELSE q \o " " \o QueryWords[i] :
                             q \in shorter, i \in 1..Len(QueryWords)}

KeywordInit ==
    /\ mode = "keywords"
    /\ query \in QueriesUpTo(MaxQueryWords)
    /\ max_files = 0
    /\ max_tokens = 0
    /\ localSize = [p \in Paths |-> NoFile]
    /\ hashseed \in 0..(HashSeeds - 1)
    /\ all_files = <<>>
    /\ db_files = <<>>
    /\ pc = "idle"
    /\ idx = 1
    /\ keywords = <<>>
    /\ scored_files = <<>>
    /\ tech_files = <<>>
    /\ important_files = <<>>
    /\ relevant_files = <<>>
    /\ total_tokens = 0
    /\ reads = NoReads
    /\ calls = 0
    /\ first_result = NoResult
    /\ files_dict = <<>>
    /\ outcome = "running"
    /\ sc_file_path = ""
    /\ sc_content = ""
    /\ sc_keywords = <<>>
    /\ sc_score = <<>>
    /\ sc_before = <<>>
    /\ handler = NoHandler
    /\ mongodb = EmptyStore
    /\ call = NoCall
    /\ cli = NoCli

\* _extract_keywords(query) is called and returns
Extract ==
    /\ mode = "keywords"
    /\ pc = "idle"
    /\ keywords' = ExtractKeywords(query, hashseed)
    /\ pc' = "extracted"
    /\ UNCHANGED <<inputs, all_files, hashseed, idx, scored_files, tech_files,
                   important_files, relevant_files, total_tokens, reads, calls,
                   first_result, files_dict, outcome>>

\* the same call is made once more, in the same process or in a new one
\* with a hash seed of its own; first_result keeps what the first call
\* returned
ExtractAgain ==
    /\ mode = "keywords"
    /\ pc = "extracted"
    /\ hashseed' \in 0..(HashSeeds - 1)
    /\ first_result' = [files |-> keywords, total |-> NoResult.total]
    /\ keywords' = ExtractKeywords(query, hashseed')
    /\ pc' = "extracted_again"
    /\ UNCHANGED <<inputs, all_files, idx, scored_files, tech_files, important_files,
                   relevant_files, total_tokens, reads, calls, files_dict, outcome>>

KeywordNext ==
    \/ Extract
    \/ ExtractAgain

KeywordSpec == KeywordInit /\ [][KeywordNext]_vars

(***************************************************************************)
(* HandlerSpec: GitHandler (src/src/git_handler.py) over the store         *)
(* (src/src/mongodb_handler.py) and GitHub.  A repository's contents are   *)
(* the set of its files, the directories walked through; the store's       *)
(* collections are sets of documents.                                      *)
(***************************************************************************)

\* the most documents ever inserted into the collection repositories
MaxIds == 2

\* s.rstrip(chars): s without its longest tail of characters of chars
RStrip(s, chars) ==
    LET k == CHOOSE n \in 0..Len(s) :
                 /\ \A i \in (n + 1)..Len(s) : CharAt(s, i) \in chars
                 /\ n > 0 => CharAt(s, n) \notin chars
    IN SubSeq(s, 1, k)

\* s.split(sep) for a one-character sep: the pieces between the separators,
\* the empty ones kept; cur is the piece being read at position i
RECURSIVE SplitOnFrom(_, _, _, _)
SplitOnFrom(s, sep, i, cur) ==
    IF i > Len(s) THEN <<cur>>
    ELSE IF CharAt(s, i) = sep THEN <<cur>> \o SplitOnFrom(s, sep, i + 1, "")
    ELSE SplitOnFrom(s, sep, i + 1, cur \o CharAt(s, i))

SplitOn(s, sep) == SplitOnFrom(s, sep, 1, "")

\* the truth value of an Optional[str]
Truthy(x) == x # None /\ x # ""

\* _parse_repo_url on the handler h: the handler after it, and whether it
\* raised ValueError.  The print of line 72 is inside the try block.
ParseRepoUrl(h) ==
    IF Contains(h.repo_url, "github.com")
    THEN LET clean_url == RStrip(h.repo_url, {".", "g", "i", "t"})
             parts == SplitOn(clean_url, "/")
             parsed ==
                 IF InList("github.com", parts)
                 THEN LET i == FirstIndex(parts, "github.com")
                      IN IF Len(parts) > i + 1
                         THEN [h EXCEPT !.owner = parts[i + 1], !.repo_name = parts[i + 2]]
                         ELSE h
                 ELSE IF Len(parts) >= 2
                      THEN [h EXCEPT !.owner = parts[Len(parts) - 1],
                                     !.repo_name = parts[Len(parts)]]
                      ELSE h
         IN [handler |-> parsed,
             raised |-> MarkupRaises("[green]Parsed repository: " \o parsed.owner
                                     \o "/" \o parsed.repo_name)]
    ELSE [handler |-> h, raised |-> TRUE]

\* the repositories GitHub serves, each with its files
GitHubRepos ==
    {[full_name |-> "example/widget", updated_at |-> "t1",
      contents |-> {[path |-> "README.md", size |-> 9, content |-> "# widget\n"],
                    [path |-> "assets/logo.png", size |-> 2048, content |-> "PNG"],
                    [path |-> "dump.sql", size |-> 1024 * 1024 + 1, content |-> "insert"]}],
     [full_name |-> "example/repo", updated_at |-> "t1",
      contents |-> {[path |-> "main.py", size |-> 9, content |-> "print(1)\n"]}]}

\* Github.get_repo(full_name_or_id): GitHub resolves the owner and the name
\* without regard to case and answers with the repository under its own
\* spelling; no repository of that name is a GithubException (404)
GetRepo(full_name) == {r \in GitHubRepos : Lower(r.full_name) = Lower(full_name)}

\* str(ObjectId) of the n-th document inserted
NewId(n) == "id" \o ToString(n)

\* the lookup that finds nothing
GetRepositoryByNameAbsent(db, owner, repo) == {}

\* MongoDBHandler.get_repository_by_name: the documents whose full_name is
\* f"{owner}/{repo}" (find_one matches the string exactly)
GetRepositoryByName(db, owner, repo) ==
    {d \in db.repositories : d.full_name = owner \o "/" \o repo}

\* MongoDBHandler.delete_repository
DeleteRepository(db, repo_id) ==
    [db EXCEPT !.repositories = {d \in @ : d.id # repo_id},
               !.files = {f \in @ : f.repo_id # repo_id}]

\* MongoDBHandler.store_repository_info: update_one on full_name with
\* upsert=True; a new document gets a new id
StoreRepositoryInfo(db, repo_info) ==
    IF \E d \in db.repositories : d.full_name = repo_info.full_name
    THEN [db EXCEPT !.repositories =
            {IF d.full_name = repo_info.full_name
             THEN [d EXCEPT !.fetched_at = repo_info.fetched_at] ELSE d : d \in @}]
    ELSE [db EXCEPT !.repositories =
            @ \cup {[id |-> NewId(db.ids + 1), full_name |-> repo_info.full_name,
                     fetched_at |-> repo_info.fetched_at]},
                    !.ids = @ + 1]

\* the id store_repository_info returns
StoredId(db, full_name) == (CHOOSE d \in db.repositories : d.full_name = full_name).id

\* _should_skip_file(path, size)
ShouldSkipFile(path, size) ==
    \/ size > 1024 * 1024
    \/ \E ext \in {".jpg", ".jpeg", ".png", ".gif", ".bmp", ".ico", ".svg", ".pdf", ".zip",
                   ".tar", ".gz", ".rar", ".7z", ".exe", ".dll", ".so", ".dylib", ".pyc",
                   ".pyo", ".pyd", ".mp3", ".mp4", ".avi", ".mov", ".flv", ".ttf", ".woff",
                   ".woff2", ".eot"} : EndsWith(Lower(path), ext)

\* _fetch_repository_contents: store_file_content (update_one on repo_id and
\* path with upsert=True) for every file that is not skipped
FetchRepositoryContents(db, repo_id, contents) ==
    LET kept == {c \in contents : ~ShouldSkipFile(c.path, c.size)}
    IN [db EXCEPT !.files =
          {f \in @ : ~(f.repo_id = repo_id /\ \E c \in kept : c.path = f.path)}
              \cup {[repo_id |-> repo_id, path |-> c.path, content |-> c.content] :
                      c \in kept}]

\* MongoDBHandler.get_all_files(repo_id)
StoredPaths(db, repo_id) == {f.path : f \in {g \in db.files : g.repo_id = repo_id}}

\* MongoDBHandler.get_file_content(repo_id, file_path)
StoredContent(db, repo_id, file_path) ==
    LET docs == {f \in db.files : f.repo_id = repo_id /\ f.path = file_path}
    IN IF docs = {} THEN None ELSE (CHOOSE f \in docs : TRUE).content

\* the nested dictionary of get_repository_structure, as its leaves: the
\* keys that lead to a file, and the file's path
Structure(paths) == {[keys |-> SplitOn(file_path, "/"), value |-> file_path] : file_path \in paths}

\* the store when the model starts: empty, or with an earlier state of
\* example/widget
StaleStore ==
    [repositories |-> {[id |-> NewId(1), full_name |-> "example/widget", fetched_at |-> "t0"]},
     files |-> {[repo_id |-> NewId(1), path |-> "README.md", content |-> "# old\n"],
                [repo_id |-> NewId(1), path |-> "src/gone.py", content |-> "x = 1\n"]},
     ids |-> 1]

\* a store with a repository that GitHub no longer serves
GoneStore ==
    [repositories |-> {[id |-> NewId(1), full_name |-> "example/gone", fetched_at |-> "t0"]},
     files |-> {[repo_id |-> NewId(1), path |-> "README.md", content |-> "# gone\n"]},
     ids |-> 1]

\* the URLs given to the constructor
UrlOwners == {"example", "Example"}
UrlRepos == {"widget", "repo", "digit"}
Url(owner, repo, suffix) == "https://github.com/" \o owner \o "/" \o repo \o suffix
RepoUrls ==
    {Url(owner, repo, suffix) : owner \in UrlOwners, repo \in UrlRepos, suffix \in {"", ".git"}}
        \cup {"https://gitlab.com/example/widget"}

\* the arguments of GitHandler(repo_url, owner, repo): a URL alone (the fetch
\* command), an owner and a name alone (the other commands), or nothing
ConstructorArgs ==
    {<<u, None, None>> : u \in RepoUrls}
        \cup {<<None, "example", "widget">>, <<None, "Example", "Widget">>,
              <<None, "example", "repo">>, <<None, "example", "gone">>,
              <<None, None, None>>}

\* the file paths asked of get_file_content
AskedPaths == {"README.md", "src/gone.py"}

\* the variables of the selection and of the scoring, but mode and pc
selecting ==
    <<query, all_files, max_files, max_tokens, localSize, db_files, hashseed, idx,
      keywords, scored_files, tech_files, important_files, relevant_files,
      total_tokens, reads, calls, first_result, files_dict, outcome, scoring>>

HandlerInit ==
    /\ mode = "handler"
    /\ query = ""
    /\ max_files = 0
    /\ max_tokens = 0
    /\ localSize = [p \in Paths |-> NoFile]
    /\ hashseed = 0
    /\ all_files = <<>>
    /\ db_files = <<>>
    /\ pc = "no_handler"
    /\ idx = 1
    /\ keywords = <<>>
    /\ scored_files = <<>>
    /\ tech_files = <<>>
    /\ important_files = <<>>
    /\ relevant_files = <<>>
    /\ total_tokens = 0
    /\ reads = NoReads
    /\ calls = 0
    /\ first_result = NoResult
    /\ files_dict = <<>>
    /\ outcome = "running"
    /\ sc_file_path = ""
    /\ sc_content = ""
    /\ sc_keywords = <<>>
    /\ sc_score = <<>>
    /\ sc_before = <<>>
    /\ handler = NoHandler
    /\ mongodb \in {EmptyStore, StaleStore, GoneStore}
    /\ call = NoCall
    /\ cli = NoCli

\* what a call leaves in the variable call
Called(name, args, kind, value, github_requests, store_queries) ==
    [name |-> name, args |-> args, result |-> [kind |-> kind, value |-> value],
     github_requests |-> github_requests, store_queries |-> store_queries]

\* lines 36-44 of __init__ on the arguments args: the fields, and the parsing
\* of repo_url when owner and repo are not both given
Constructed(args) ==
    LET h == [repo_url |-> args[1], owner |-> args[2], repo_name |-> args[3],
              repo |-> None, repo_id |-> None]
    IN IF Truthy(args[1]) /\ ~(Truthy(args[2]) /\ Truthy(args[3]))
       THEN ParseRepoUrl(h)
       ELSE [handler |-> h, raised |-> FALSE]

\* Constructed per argument triple of the model
ConstructedTable == Tabulated([args \in ConstructorArgs |-> Constructed(args)])

\* get_repo per name a handler of the model can hold
GetRepoTable ==
    Tabulated([full_name \in {ConstructedTable[args].handler.owner \o "/"
                                 \o ConstructedTable[args].handler.repo_name :
                                   args \in ConstructorArgs} |-> GetRepo(full_name)])

\* GitHandler.__init__(repo_url, owner, repo), lines 36-47: a new object is
\* made, by a new run of a command; a ValueError of _parse_repo_url leaves
\* no object
Construct ==
    /\ mode = "handler"
    /\ \E args \in ConstructorArgs :
          LET parse == ConstructedTable[args]
          IN IF parse.raised
             THEN /\ handler' = NoHandler
                  /\ pc' = "no_handler"
                  /\ call' = Called("__init__", args, "ValueError",
                                    "Invalid GitHub repository URL: " \o args[1], 0, 0)
             ELSE /\ handler' = parse.handler
                  /\ pc' = "handler"
                  /\ call' = Called("__init__", args, "ok", None, 0, 0)
    /\ UNCHANGED <<mode, cli, selecting, mongodb>>

\* the deletion of lines 118-121 made before the lookup of line 103
DeleteBeforeLookup(db, existing_repo, force, found) ==
    IF force /\ existing_repo # {}
    THEN DeleteRepository(db, (CHOOSE d \in existing_repo : TRUE).id)
    ELSE db

\* lines 103-121: the store after get_repo and the deletion of the stored
\* snapshot; when get_repo raises (found is empty) line 118 is not reached
AfterLookup(db, existing_repo, force, found) ==
    IF found # {} /\ force /\ existing_repo # {}
    THEN DeleteRepository(db, (CHOOSE d \in existing_repo : TRUE).id)
    ELSE db

\* fetch_repository(force), lines 87-139, on the handler and the store; the
\* store gives out at most MaxIds ids
FetchCall(force) ==
    IF ~Truthy(handler.owner) \/ ~Truthy(handler.repo_name)
    THEN /\ call' = Called("fetch_repository", <<force>>, "ValueError",
                           "Repository owner and name are required", 0, 0)
         /\ UNCHANGED <<handler, mongodb>>
    ELSE LET existing_repo ==
                 GetRepositoryByName(mongodb, handler.owner, handler.repo_name)
             found == GetRepoTable[handler.owner \o "/" \o handler.repo_name]
         IN IF existing_repo # {} /\ ~force
            THEN LET repo_id == (CHOOSE d \in existing_repo : TRUE).id
                 IN /\ handler' = [handler EXCEPT !.repo_id = repo_id]
                    /\ call' = Called("fetch_repository", <<force>>, "ok", repo_id, 0, 1)
                    /\ UNCHANGED mongodb
            ELSE IF found = {}
            THEN /\ call' = Called("fetch_repository", <<force>>, "GithubException",
                                   "Not Found", 1, 1)
                 /\ mongodb' = AfterLookup(mongodb, existing_repo, force, found)
                 /\ UNCHANGED handler
            ELSE LET repo == CHOOSE r \in found : TRUE
                     repo_info == [full_name |-> repo.full_name,
                                   fetched_at |-> repo.updated_at]
                     deleted == AfterLookup(mongodb, existing_repo, force, found)
                     stored == StoreRepositoryInfo(deleted, repo_info)
                     repo_id == StoredId(stored, repo.full_name)
                 IN /\ stored.ids <= MaxIds
                    /\ mongodb' = FetchRepositoryContents(stored, repo_id, repo.contents)
                    /\ handler' = [handler EXCEPT !.repo = repo.full_name,
                                                  !.repo_id = repo_id]
                    /\ call' = Called("fetch_repository", <<force>>, "ok", repo_id,
                                      2, IF force /\ existing_repo # {} THEN 4 ELSE 3)

\* a caller that holds a handler calls fetch_repository(force)
FetchRepository ==
    /\ mode = "handler"
    /\ pc = "handler"
    /\ \E force \in BOOLEAN : FetchCall(force)
    /\ UNCHANGED <<mode, pc, cli, selecting>>

\* git_handler.repo_id = target_repo_id (main.py 131): the caller sets the
\* id of a stored repository
SetRepoId ==
    /\ mode = "handler"
    /\ pc = "handler"
    /\ \E d \in mongodb.repositories : handler' = [handler EXCEPT !.repo_id = d.id]
    /\ call' = Called("repo_id=", <<>>, "ok", None, 0, 0)
    /\ UNCHANGED <<mode, pc, cli, selecting, mongodb>>

\* the test of the getters always failing
NotFetchedNever(h) == FALSE

\* if not self.repo_id (lines 220, 232, 244)
NotFetched(h) == ~Truthy(h.repo_id)

\* what a getter leaves in call: ValueError("Repository not fetched yet")
\* before any use of the store, or the value after one query
Getter(name, args, value) ==
    IF NotFetched(handler)
    THEN Called(name, args, "ValueError", "Repository not fetched yet", 0, 0)
    ELSE Called(name, args, "ok", value, 0, 1)

\* get_all_files(), lines 232-235
GetAllFiles ==
    /\ mode = "handler"
    /\ pc = "handler"
    /\ call' = Getter("get_all_files", <<>>, StoredPaths(mongodb, handler.repo_id))
    /\ UNCHANGED <<mode, pc, cli, selecting, handler, mongodb>>

\* get_file_content(file_path), lines 220-223
GetFileContent ==
    /\ mode = "handler"
    /\ pc = "handler"
    /\ \E file_path \in AskedPaths :
          call' = Getter("get_file_content", <<file_path>>,
                         StoredContent(mongodb, handler.repo_id, file_path))
    /\ UNCHANGED <<mode, pc, cli, selecting, handler, mongodb>>

\* get_repository_structure(), lines 244-263
GetRepositoryStructure ==
    /\ mode = "handler"
    /\ pc = "handler"
    /\ call' = Getter("get_repository_structure", <<>>,
                      Structure(StoredPaths(mongodb, handler.repo_id)))
    /\ UNCHANGED <<mode, pc, cli, selecting, handler, mongodb>>

\* ObjectId(repo_id) accepts repo_id: the ids of the model stand for the
\* 24-character hexadecimal strings of the store
IsObjectId(repo_id) == \E n \in 1..(MaxIds + 1) : repo_id = NewId(n)

\* str(InvalidId) for the string repo_id (bson.objectid._raise_invalid_id)
InvalidIdMessage(repo_id) ==
    "'" \o repo_id \o "' is not a valid ObjectId, it must be a 12-byte input"
        \o " or a 24-character hex string"

\* the ids asked of delete_repository: those of stored documents, one of no
\* document, and two strings that are no ObjectId
DeleteIds == {NewId(n) : n \in 1..(MaxIds + 1)} \cup {"abc", "[/x]"}

\* how MongoDBHandler.delete_repository(repo_id) ends, lines 161-183:
\* ObjectId(repo_id) is inside the try block (172-174); the handler of the
\* exception prints the message as console markup (182) and returns False
DeleteRepositoryEnds(repo_id) ==
    IF IsObjectId(repo_id)
    THEN [kind |-> "ok", value |-> "True"]
    ELSE IF MarkupRaises("[red]Error deleting repository: " \o InvalidIdMessage(repo_id))
    THEN [kind |-> "MarkupError", value |-> None]
    ELSE [kind |-> "ok", value |-> "False"]

\* DeleteRepositoryEnds per id of the model
DeleteEnds == Tabulated([repo_id \in DeleteIds |-> DeleteRepositoryEnds(repo_id)])

\* a caller deletes a repository: mongodb.delete_repository(repo_id)
DeleteStored ==
    /\ mode = "handler"
    /\ \E repo_id \in DeleteIds :
          LET ended == DeleteEnds[repo_id]
          IN /\ mongodb' = IF ended.value = "True"
                           THEN DeleteRepository(mongodb, repo_id) ELSE mongodb
             /\ call' = Called("delete_repository", <<repo_id>>, ended.kind, ended.value,
                               0, IF ended.value = "True" THEN 2 ELSE 0)
    /\ UNCHANGED <<mode, pc, cli, selecting, handler>>

HandlerNext ==
    \/ Construct
    \/ FetchRepository
    \/ SetRepoId
    \/ GetAllFiles
    \/ GetFileContent
    \/ GetRepositoryStructure
    \/ DeleteStored

HandlerSpec == HandlerInit /\ [][HandlerNext]_vars

(***************************************************************************)
(* main.py: the commands fetch, chat, analyze, list and delete.  A command *)
(* is a run of the program; REPO_ID lives as long as the process, the file *)
(* last_repo.txt and the store outlive it.                                 *)
(***************************************************************************)

Commands == {"fetch", "chat", "analyze", "list", "delete"}

\* the URLs given to the fetch command: a repository of GitHub, and a URL
\* that _parse_repo_url refuses
FetchUrls == {"https://github.com/example/repo", "https://gitlab.com/example/widget"}

\* the values of --repo-id: absent, or an id the store may have given out
RepoIdOptions == {None} \cup {NewId(n) : n \in 1..(MaxIds + 1)}

\* the values of --owner and --repo
NameOptions == {<<None, None>>, <<"example", "widget">>, <<"example", "repo">>}

\* the methods of FileSelector (file_selector.py 14-376)
FileSelectorMethods ==
    {"__init__", "get_relevant_files", "_extract_keywords", "_score_files",
     "_calculate_score", "_get_technology_specific_files", "_read_file"}

CommandInit ==
    /\ mode = "command"
    /\ query = ""
    /\ max_files = 0
    /\ max_tokens = 0
    /\ localSize = [p \in Paths |-> NoFile]
    /\ hashseed = 0
    /\ all_files = <<>>
    /\ db_files = <<>>
    /\ pc = "shell"
    /\ idx = 1
    /\ keywords = <<>>
    /\ scored_files = <<>>
    /\ tech_files = <<>>
    /\ important_files = <<>>
    /\ relevant_files = <<>>
    /\ total_tokens = 0
    /\ reads = NoReads
    /\ calls = 0
    /\ first_result = NoResult
    /\ files_dict = <<>>
    /\ outcome = "running"
    /\ sc_file_path = ""
    /\ sc_content = ""
    /\ sc_keywords = <<>>
    /\ sc_score = <<>>
    /\ sc_before = <<>>
    /\ handler = NoHandler
    /\ mongodb \in {EmptyStore, StaleStore}
    /\ call = NoCall
    /\ \E last \in {None} \cup {d.id : d \in mongodb.repositories} :
          cli = [NoCli EXCEPT !.last_repo = last]

\* a command is given, to a new process (REPO_ID is None again) or, as a
\* call of the command's function, to the process of the command before;
\* fetch is given while the store has ids left to give out
Invoke ==
    /\ mode = "command"
    /\ pc = "shell"
    /\ \E command \in Commands, fresh \in BOOLEAN, force \in BOOLEAN :
          \E repo_url \in (IF command = "fetch" THEN FetchUrls ELSE {None}),
             repo_id \in (IF command = "fetch" THEN {None} ELSE RepoIdOptions),
             name \in (IF command = "fetch" THEN {<<None, None>>} ELSE NameOptions) :
             /\ force => command \in {"fetch", "delete"}
             /\ command = "fetch" => mongodb.ids < MaxIds
             /\ cli' = [REPO_ID |-> IF fresh THEN None ELSE cli.REPO_ID,
                        last_repo |-> cli.last_repo, command |-> command,
                        repo_url |-> repo_url, repo_id |-> repo_id,
                        owner |-> name[1], repo |-> name[2], force |-> force,
                        target_repo_id |-> None, status |-> "running"]
    /\ pc' = "started"
    /\ handler' = NoHandler
    /\ call' = NoCall
    /\ UNCHANGED <<mode, selecting, mongodb>>

\* the command ends with sys.exit(1), or with a traceback
Exit1 == [cli EXCEPT !.status = "exit 1"]

\* fetch, line 47: GitHandler(repo_url, owner, repo); its ValueError is
\* outside the try block and ends the process
FetchConstruct ==
    /\ mode = "command"
    /\ pc = "started"
    /\ cli.command = "fetch"
    /\ LET args == <<cli.repo_url, cli.owner, cli.repo>>
           parse == ConstructedTable[args]
       IN IF parse.raised
          THEN /\ handler' = NoHandler
               /\ call' = Called("__init__", args, "ValueError",
                                 "Invalid GitHub repository URL: " \o args[1], 0, 0)
               /\ cli' = Exit1
               /\ pc' = "shell"
          ELSE /\ handler' = parse.handler
               /\ call' = Called("__init__", args, "ok", None, 0, 0)
               /\ pc' = "fetch"
               /\ UNCHANGED cli
    /\ UNCHANGED <<mode, selecting, mongodb>>

\* fetch, lines 49-64: fetch_repository(force); the id goes to REPO_ID and
\* to last_repo.txt; any exception is printed and the command exits with 1
FetchCommand ==
    /\ mode = "command"
    /\ pc = "fetch"
    /\ FetchCall(cli.force)
    /\ cli' = IF call'.result.kind = "ok"
              THEN [cli EXCEPT !.REPO_ID = call'.result.value,
                               !.last_repo = call'.result.value,
                               !.status = "exit 0"]
              ELSE Exit1
    /\ pc' = "shell"
    /\ UNCHANGED <<mode, selecting>>

\* the resolution with last_repo.txt read before the store is asked for the
\* owner and the name
TargetRepoIdFileFirst(c, db) ==
    LET given == IF Truthy(c.repo_id) THEN c.repo_id ELSE c.REPO_ID
        saved == IF ~Truthy(given) /\ c.last_repo # None THEN Strip(c.last_repo) ELSE given
        named == GetRepositoryByName(db, c.owner, c.repo)
    IN IF ~Truthy(saved) /\ Truthy(c.owner) /\ Truthy(c.repo) /\ named # {}
       THEN (CHOOSE d \in named : TRUE).id
       ELSE saved

\* lines 100-114 (chat; 215-229, 327-341, 406-420 in the other commands):
\* target_repo_id for the command line c and the store db
TargetRepoId(c, db) ==
    LET given == IF Truthy(c.repo_id) THEN c.repo_id ELSE c.REPO_ID
        named == GetRepositoryByName(db, c.owner, c.repo)
        looked_up == IF ~Truthy(given) /\ Truthy(c.owner) /\ Truthy(c.repo) /\ named # {}
                     THEN (CHOOSE d \in named : TRUE).id
                     ELSE given
    IN IF ~Truthy(looked_up) /\ c.last_repo # None
       THEN Strip(c.last_repo)
       ELSE looked_up

\* MongoDBHandler.get_repository_info(repo_id): the documents with that id,
\* none when ObjectId(repo_id) raises
GetRepositoryInfo(db, repo_id) ==
    IF IsObjectId(repo_id) THEN {d \in db.repositories : d.id = repo_id} ELSE {}

\* lines 100-131 of chat, the same in analyze, list and delete: the target is
\* resolved and looked up; without a target or without its document the
\* command exits with 1, else the handler is made for the document
Resolve ==
    /\ mode = "command"
    /\ pc = "started"
    /\ cli.command # "fetch"
    /\ LET target_repo_id == TargetRepoId(cli, mongodb)
           repo_info == GetRepositoryInfo(mongodb, target_repo_id)
       IN IF ~Truthy(target_repo_id) \/ repo_info = {}
          THEN /\ cli' = [Exit1 EXCEPT !.target_repo_id = target_repo_id]
               /\ call' = Called("resolve", <<>>, "SystemExit", "1", 0,
                                 IF Truthy(target_repo_id) THEN 1 ELSE 0)
               /\ pc' = "shell"
               /\ UNCHANGED handler
          ELSE LET full_name == SplitOn((CHOOSE d \in repo_info : TRUE).full_name, "/")
               IN /\ cli' = [cli EXCEPT !.target_repo_id = target_repo_id]
                  /\ handler' = [repo_url |-> None, owner |-> full_name[1],
                                 repo_name |-> full_name[2], repo |-> None,
                                 repo_id |-> target_repo_id]
                  /\ call' = Called("resolve", <<>>, "ok", target_repo_id, 0, 1)
                  /\ pc' = "body"
    /\ UNCHANGED <<mode, selecting, mongodb>>

\* chat, lines 133-140: the files are listed; with none the command exits
\* with 1, else it goes on with the selection (the chat mode of Spec)
ChatList ==
    /\ mode = "command"
    /\ pc = "body"
    /\ cli.command = "chat"
    /\ LET files == StoredPaths(mongodb, handler.repo_id)
       IN /\ call' = Called("get_all_files", <<>>, "ok", files, 0, 1)
          /\ cli' = IF files = {} THEN Exit1 ELSE [cli EXCEPT !.status = "selecting"]
    /\ pc' = "shell"
    /\ UNCHANGED <<mode, selecting, handler, mongodb>>

\* list, lines 360-383: the files are listed and printed in sorted order;
\* with none the command exits with 1
ListFiles ==
    /\ mode = "command"
    /\ pc = "body"
    /\ cli.command = "list"
    /\ LET files == StoredPaths(mongodb, handler.repo_id)
       IN /\ call' = Called("get_all_files", <<>>, "ok", files, 0, 1)
          /\ cli' = IF files = {} THEN Exit1 ELSE [cli EXCEPT !.status = "exit 0"]
    /\ pc' = "shell"
    /\ UNCHANGED <<mode, selecting, handler, mongodb>>

\* analyze, lines 249-257: the files are listed; with none the command
\* exits with 1
AnalyzeList ==
    /\ mode = "command"
    /\ pc = "body"
    /\ cli.command = "analyze"
    /\ LET files == StoredPaths(mongodb, handler.repo_id)
       IN /\ call' = Called("get_all_files", <<>>, "ok", files, 0, 1)
          /\ IF files = {}
             THEN cli' = Exit1 /\ pc' = "shell"
             ELSE pc' = "analyze" /\ UNCHANGED cli
    /\ UNCHANGED <<mode, selecting, handler, mongodb>>

\* analyze, lines 259-304: FileSelector(...).get_representative_files is
\* looked up on the object; an attribute the class does not have raises
\* AttributeError, which line 302 catches, and the command exits with 1.
\* With the method the files go to ClaudeClient.chat_with_codebase.
AnalyzeSelect ==
    /\ mode = "command"
    /\ pc = "analyze"
    /\ IF "get_representative_files" \in FileSelectorMethods
       THEN /\ call' = Called("chat_with_codebase", <<"analysis_prompt">>, "ok", None, 0,
                              Cardinality(StoredPaths(mongodb, handler.repo_id)))
            /\ cli' = [cli EXCEPT !.status = "exit 0"]
       ELSE /\ call' = Called("get_representative_files", <<>>, "AttributeError",
                              "'FileSelector' object has no attribute "
                                  \o "'get_representative_files'", 0, 0)
            /\ cli' = Exit1
    /\ pc' = "shell"
    /\ UNCHANGED <<mode, selecting, handler, mongodb>>

\* delete, lines 435-463: without --force the user is asked; the repository
\* is deleted, and when it is the one REPO_ID names, REPO_ID is set to None
\* and last_repo.txt is removed
DeleteCommand ==
    /\ mode = "command"
    /\ pc = "body"
    /\ cli.command = "delete"
    /\ \E confirm \in BOOLEAN :
          /\ cli.force => confirm
          /\ IF ~confirm
             THEN /\ call' = Called("confirm", <<>>, "ok", "False", 0, 0)
                  /\ cli' = [cli EXCEPT !.status = "exit 0"]
                  /\ UNCHANGED mongodb
             ELSE LET success == DeleteEnds[cli.target_repo_id]
                  IN /\ call' = Called("delete_repository", <<cli.target_repo_id>>,
                                       success.kind, success.value, 0, 2)
                     /\ mongodb' = IF success.value = "True"
                                   THEN DeleteRepository(mongodb, cli.target_repo_id)
                                   ELSE mongodb
                     /\ cli' = IF success.value # "True" THEN Exit1
                               ELSE IF cli.REPO_ID = cli.target_repo_id
                               THEN [cli EXCEPT !.REPO_ID = None, !.last_repo = None,
                                                !.status = "exit 0"]
                               ELSE [cli EXCEPT !.status = "exit 0"]
    /\ pc' = "shell"
    /\ UNCHANGED <<mode, selecting, handler>>

CommandNext ==
    \/ Invoke
    \/ FetchConstruct
    \/ FetchCommand
    \/ Resolve
    \/ ChatList
    \/ ListFiles
    \/ AnalyzeList
    \/ AnalyzeSelect
    \/ DeleteCommand

CommandSpec == CommandInit /\ [][CommandNext]_vars

\* a command that has started runs to its end: the process is scheduled
\* until it exits, and none of its steps waits for another process
CommandFairSpec ==
    /\ CommandSpec
    /\ WF_vars(FetchConstruct)
    /\ WF_vars(FetchCommand)
    /\ WF_vars(Resolve)
    /\ WF_vars(ChatList)
    /\ WF_vars(ListFiles)
    /\ WF_vars(AnalyzeList)
    /\ WF_vars(AnalyzeSelect)
    /\ WF_vars(DeleteCommand)

(***************************************************************************)
(* Properties                                                              *)
(***************************************************************************)

\* the estimate of the placeholder _read_file returns for file_path
EstimateOf(file_path) == TokenEstimate(ReadFile(file_path))

\* the position of the path p among the keys of d
IndexOf(d, p) == CHOOSE i \in 1..Len(d) : d[i].path = p

\* C1: at every step of get_relevant_files, whatever the query, the file
\* list and the budgets (0 and budgets below any single estimate included),
\* relevant_files has at most max_files entries, the estimates of its
\* contents (len // 4 each) sum to at most max_tokens and to total_tokens,
\* and no entry's own estimate exceeds max_tokens.
SelectionWithinBudgets ==
    /\ Len(relevant_files) <= max_files
    /\ SumTokens(relevant_files) <= max_tokens
    /\ total_tokens = SumTokens(relevant_files)
    /\ \A i \in 1..Len(relevant_files) :
          TokenEstimate(relevant_files[i].content) <= max_tokens

\* C1, the case: the scenario's files under a budget of 13 tokens; .env (12
\* tokens) is returned alone, config/database.php (16 tokens) is over the
\* budget by itself and README.md (13 tokens) no longer fits
BudgetTurnsFilesAway ==
    /\ pc = "returned"
    /\ all_files = ScenarioFiles
    /\ max_files = ScenarioBudgets.max_files
    /\ max_tokens = 13
    /\ Keys(relevant_files) = <<".env">>
    /\ EstimateOf("config/database.php") > max_tokens

\* C2: when the chat command hands files_dict to the client, it holds at
\* most max_files files and the estimates (len // 4) of the contents handed
\* over sum to at most max_tokens_context.
ChatContextWithinBudgets ==
    pc = "chat_send" =>
        /\ Len(files_dict) <= max_files
        /\ SumTokens(files_dict) <= max_tokens

\* C3: a second call of get_relevant_files with the same query, file list
\* and budgets returns what the first call returned: the same paths in the
\* same order, the same contents, the same total.
SecondCallReturnsTheSame ==
    pc = "returned" /\ calls = 2 => Result = first_result

ScenarioCall ==
    /\ query = ScenarioQuery
    /\ all_files = ScenarioFiles
    /\ max_files = ScenarioBudgets.max_files
    /\ max_tokens = ScenarioBudgets.max_tokens

\* .env, config/database.php and README.md are selected, each before
\* src/app.py where that is selected; image.png is neither read, scored nor
\* selected
ScenarioSelection ==
    /\ \A p \in {".env", "config/database.php", "README.md"} :
          /\ HasKey(relevant_files, p)
          /\ HasKey(relevant_files, "src/app.py") =>
                IndexOf(relevant_files, p) < IndexOf(relevant_files, "src/app.py")
    /\ ~HasKey(relevant_files, "image.png")
    /\ \A i \in 1..Len(scored_files) : scored_files[i].path # "image.png"
    /\ reads["image.png"] = 0

SelectionNeverRaises == pc # "raised"

\* the place of a phase in the order of the phases
PhaseRank(phase) == IF phase = "tech" THEN 1 ELSE IF phase = "score" THEN 2 ELSE 3

\* a step leaves the mapping and the total as they are, starts a call with
\* the empty mapping, or appends one path that is not a key yet, included by
\* a phase no earlier than the phases of the entries before it
StepRespectsPhases ==
    \/ relevant_files' = relevant_files /\ total_tokens' = total_tokens
    \/ pc = "start" /\ relevant_files' = <<>>
    \/ /\ Len(relevant_files') = Len(relevant_files) + 1
       /\ SubSeq(relevant_files', 1, Len(relevant_files)) = relevant_files
       /\ LET new == relevant_files'[Len(relevant_files')]
          IN /\ ~HasKey(relevant_files, new.path)
             /\ new.phase = pc
             /\ \A i \in 1..Len(relevant_files) :
                   PhaseRank(relevant_files[i].phase) <= PhaseRank(new.phase)

\* C7: the phases run in order and never select again: every inclusion
\* appends a path that is not yet in the mapping, and in the mapping's
\* insertion order the technology phase's paths precede the score phase's,
\* which precede the pinned phase's.
PhasesInOrder == [][StepRespectsPhases]_vars

\* C7, the case: a returned mapping with a path of each of the three phases
AllThreePhasesSelect ==
    /\ pc = "returned"
    /\ \E i, j, k \in 1..Len(relevant_files) :
          /\ i < j /\ j < k
          /\ relevant_files[i].phase = "tech"
          /\ relevant_files[j].phase = "score"
          /\ relevant_files[k].phase = "pinned"

\* C8: during one call of get_relevant_files, _read_file is called at most
\* once for any path, the reads of _score_files and of the three phases
\* counted together.
ReadAtMostOncePerPath == \A p \in Paths : reads[p] <= 1

\* the paths the three phases consider
Candidates ==
    {tech_files[i] : i \in {j \in 1..Len(tech_files) : InList(tech_files[j], all_files)}}
    \cup {scored_files[i].path : i \in 1..Len(scored_files)}
    \cup Elems(important_files)

\* C9: the value stored for every selected path is the whole string
\* _read_file returned for it (a placeholder text), and when the call
\* returns, a candidate is missing only if the result has max_files entries
\* or the candidate's estimate does not fit in what is left of max_tokens.
PlaceholdersPassThrough ==
    /\ \A i \in 1..Len(relevant_files) :
          relevant_files[i].content = ReadFile(relevant_files[i].path)
    /\ pc = "returned" =>
          \A p \in Candidates :
              \/ HasKey(relevant_files, p)
              \/ Len(relevant_files) >= max_files
              \/ total_tokens + EstimateOf(p) > max_tokens

\* C9, the case: a returned mapping whose value for config/database.php is
\* the placeholder text, whole
PlaceholderReturned ==
    /\ pc = "returned"
    /\ \E i \in 1..Len(relevant_files) :
          /\ relevant_files[i].path = "config/database.php"
          /\ relevant_files[i].content
                = "[File content will be fetched from MongoDB: config/database.php]"

\* C10: _calculate_score is never negative, and a content of the same
\* length with more occurrences of a keyword of the list, and no fewer of
\* any, scores at least as much for the same path and keywords.
ScoreMonotone ==
    /\ sc_score # <<>> => sc_score[1] >= 0
    /\ sc_score # <<>> /\ sc_before # <<>> => sc_score[1] >= sc_before[1]

\* C10, the case: a content scored, given one more occurrence and scored
\* again, higher than before
ScoreRoseWithOccurrence ==
    /\ sc_score # <<>>
    /\ sc_before # <<>>
    /\ sc_score[1] > sc_before[1]
    /\ Count(Lower(sc_content), "mongo") >= 2

\* C11 as stated: of two paths that differ in the extension alone, with the
\* same content and keywords, the one with a code extension scores at least
\* as much as the one with a documentation extension.
CodeExtensionScoresNoLess ==
    mode = "extension" /\ sc_score # <<>> /\ sc_before # <<>>
        => sc_score[1] >= sc_before[1]

\* C11: of two paths that differ in the extension alone, with the same
\* content and keywords, the one with a code extension scores at least as
\* much as the one with a documentation extension, provided the
\* documentation file's name is no package file name (requirements.txt) and
\* every keyword found in the documentation file's name is also found in
\* the code file's name.
CodeExtensionScoresNoLessOffPackages ==
    /\ mode = "extension" /\ sc_score # <<>> /\ sc_before # <<>>
    /\ Lower(Basename(sc_before[2])) \notin package_files
    /\ \A n \in 1..Len(sc_keywords) :
          Contains(Lower(Basename(sc_before[2])), Lower(sc_keywords[n]))
              => Contains(Lower(Basename(sc_file_path)), Lower(sc_keywords[n]))
    => sc_score[1] >= sc_before[1]

\* C11, the case: docs/README.py scored after a README of a documentation
\* extension, with keywords found in the content, and scored higher
ReadmeAsCodeScoresMore ==
    /\ mode = "extension"
    /\ sc_file_path = "docs/README.py"
    /\ sc_before[2] = "docs/README.md"
    /\ sc_keywords = <<"mongo">>
    /\ sc_content = "mongo db and mongo txt"
    /\ sc_score # <<>> /\ sc_before # <<>>
    /\ sc_score[1] > sc_before[1]

\* a path that _score_files leaves out for its extension or its size
Blocked(p) ==
    \/ Lower(Suffix(p)) \in binary_extensions
    \/ localSize[p] > SizeCeiling

\* C12 as stated: a path with a block-listed extension or a size above the
\* ceiling is never read by _score_files, has no score entry, and is never
\* selected.
BlockedNeverSelected ==
    \A p \in Paths : Blocked(p) =>
        /\ (pc = "tech" /\ idx = 1 => reads[p] = 0)
        /\ \A i \in 1..Len(scored_files) : scored_files[i].path # p
        /\ ~HasKey(relevant_files, p)

\* C12: a path with a block-listed extension or a size above the ceiling is
\* never read by _score_files (when _score_files has returned and no phase
\* has run yet, the path has no read), has no score entry, and is never
\* selected by the score phase; the technology and pinned phases, which do
\* not go through _score_files, may select it.
BlockedNeverScored ==
    \A p \in Paths : Blocked(p) =>
        /\ (pc = "tech" /\ idx = 1 => reads[p] = 0)
        /\ \A i \in 1..Len(scored_files) : scored_files[i].path # p
        /\ \A i \in 1..Len(relevant_files) :
              relevant_files[i].path = p => relevant_files[i].phase # "score"

\* C12, the case: a call has returned for a list with a block-listed path
\* that is on disk and small and with a path above the ceiling, the other
\* paths have score entries, and a blocked path was selected by the
\* technology phase and another by the pinned phase
BlockedSelectedOutsideScoring ==
    /\ pc = "returned"
    /\ scored_files # <<>>
    /\ \E i, j \in 1..Len(relevant_files) :
          /\ Lower(Suffix(relevant_files[i].path)) \in binary_extensions
          /\ relevant_files[i].phase = "tech"
          /\ localSize[relevant_files[j].path] > SizeCeiling
          /\ relevant_files[j].phase = "pinned"

\* C13 as stated: the keyword list _extract_keywords returns has no string
\* twice, whatever the query, one that repeats a word included.
KeywordsDeduplicated ==
    mode = "keywords" /\ pc = "extracted" => NoDup(keywords)

\* the lines 139-177 of _extract_keywords: the technology terms, and the
\* terms the three expansions add
TechAndExpansionTerms ==
    Elems(tech_keywords) \cup Elems(mongo_related) \cup Elems(laravel_related)
        \cup Elems(connect_related)

\* C20: every keyword returned is a whitespace-separated token of the
\* cleaned lowercased query of length >= 3 that is no stop word, or a
\* technology or expansion term; no stop word is returned, and a token
\* shorter than 3 characters is returned only if it is a technology or
\* expansion term.
KeywordsAreQueryWordsOrTerms ==
    mode = "keywords" /\ pc = "extracted" =>
        LET tokens == Elems(Split(SubPunctuation(Lower(query))))
        IN \A n \in 1..Len(keywords) :
              /\ \/ /\ keywords[n] \in tokens
                    /\ Len(keywords[n]) >= 3
                    /\ keywords[n] \notin stop_words
                 \/ keywords[n] \in TechAndExpansionTerms
              /\ keywords[n] \notin stop_words
              /\ Len(keywords[n]) < 3 => keywords[n] \in TechAndExpansionTerms

\* C20, the case: a query of a stop word and a two-letter technology term
\* has been processed; the stop word is dropped and the term, dropped as a
\* token for its length, is returned as a technology term
StopWordDroppedTermKept ==
    /\ mode = "keywords" /\ pc = "extracted"
    /\ query = "the db"
    /\ keywords = <<"db">>

\* C17 as stated: the technology phase considers the matched paths in the
\* order of all_files, so the technology-phase entries of the result are in
\* that order.
TechEntriesInFileListOrder ==
    \A i, j \in 1..Len(relevant_files) :
        /\ i < j
        /\ relevant_files[i].phase = "tech"
        /\ relevant_files[j].phase = "tech"
        => FirstIndex(all_files, relevant_files[i].path)
               < FirstIndex(all_files, relevant_files[j].path)

\* C18: the list the score phase walks is in non-increasing score order, the
\* entries of one score are in the order of all_files, and the score-phase
\* entries of the result are in the order of that list.
ScorePhaseDescendingAndStable ==
    /\ \A i, j \in 1..Len(scored_files) :
          i < j => scored_files[i].score >= scored_files[j].score
    /\ \A n \in 1..Len(scored_files) :
          LET HasScore(e) == e.score = scored_files[n].score
              ScoredSo(file_path) ==
                  \E m \in 1..Len(scored_files) :
                      scored_files[m].path = file_path /\ HasScore(scored_files[m])
          IN Keys(SelectSeq(scored_files, HasScore)) = SelectSeq(all_files, ScoredSo)
    /\ \A i, j \in 1..Len(relevant_files) :
          /\ i < j
          /\ relevant_files[i].phase = "score"
          /\ relevant_files[j].phase = "score"
          => FirstIndex(Keys(scored_files), relevant_files[i].path)
                 < FirstIndex(Keys(scored_files), relevant_files[j].path)

\* C18, the case: a call has returned for the list LICENSE, src/app.py,
\* Makefile; the first and the last have the same score, the second a
\* greater one, and the score phase has selected src/app.py, LICENSE and
\* Makefile in this order
TiesKeepFileListOrder ==
    /\ pc = "returned"
    /\ all_files = TiedFiles
    /\ Len(scored_files) = 3
    /\ scored_files[2].score = scored_files[3].score
    /\ scored_files[1].score > scored_files[2].score
    /\ Keys(relevant_files) = <<"src/app.py", "LICENSE", "Makefile">>
    /\ \A i \in 1..3 : relevant_files[i].phase = "score"

\* the list a phase walks
PhaseList(phase) ==
    IF phase = "tech" THEN tech_files
    ELSE IF phase = "score" THEN Keys(scored_files)
    ELSE important_files

\* a step of a phase includes a file only if every earlier candidate of the
\* phase is in the result.  An earlier candidate that is not was turned away
\* by the token budget: the result is not full now, so it was not full then,
\* and no content is empty.
IncludesOnlyAfterNoRejection ==
    pc \in {"tech", "score", "pinned"} /\ Len(relevant_files') > Len(relevant_files)
        => \A m \in 1..(idx - 1) : HasKey(relevant_files, PhaseList(pc)[m])

\* C19 as stated: each phase stops early; once a candidate is rejected
\* because it would push the token estimate over max_tokens, no later
\* candidate of that phase is included.
PhaseStopsAfterTokenRejection == [][IncludesOnlyAfterNoRejection]_vars

\* the stored documents whose full_name is the handler's owner and name
StoredUnderName == {d \in mongodb.repositories : d.full_name = handler.owner \o "/" \o handler.repo_name}

\* a step of fetch_repository: with force=False on a repository in the
\* store it returns the stored id and makes no GitHub request, and the
\* store is as before; a GitHub request is made only with force=True or
\* for a repository that is not in the store
FetchStepKeepsStored ==
    call'.name = "fetch_repository" =>
        /\ StoredUnderName # {} /\ ~call'.args[1] =>
              /\ call'.result.kind = "ok"
              /\ \E d \in StoredUnderName : call'.result.value = d.id /\ handler'.repo_id = d.id
              /\ call'.github_requests = 0
              /\ mongodb' = mongodb
        /\ call'.github_requests > 0 => call'.args[1] \/ StoredUnderName = {}

UrlParsedExactly ==
    \A owner \in UrlOwners, repo \in UrlRepos, suffix \in {"", ".git"} :
        /\ call.name = "__init__"
        /\ call.args = <<Url(owner, repo, suffix), None, None>>
        => /\ call.result.kind = "ok"
           /\ handler.repo_url = Url(owner, repo, suffix)
           /\ handler.owner = owner
           /\ handler.repo_name = repo

\* a step of the constructor leaves repo and repo_id unset; a step of a
\* getter on a handler whose repo_id is unset raises
\* ValueError("Repository not fetched yet") and does not use the store
UnfetchedStepRaises ==
    /\ call'.name = "__init__" /\ call'.result.kind = "ok" =>
          handler'.repo = None /\ handler'.repo_id = None
    /\ /\ call'.name \in {"get_all_files", "get_file_content", "get_repository_structure"}
       /\ handler.repo_id = None
       => /\ call'.result.kind = "ValueError"
          /\ call'.result.value = "Repository not fetched yet"
          /\ call'.store_queries = 0
          /\ mongodb' = mongodb

\* C16: a GitHandler just constructed has repo and repo_id unset, and until
\* repo_id is set by fetch_repository or by the caller, get_all_files,
\* get_file_content and get_repository_structure raise
\* ValueError("Repository not fetched yet") without querying the store.
UnfetchedGettersRaise == [][UnfetchedStepRaises]_vars

\* C16, the case: get_repository_structure was called on a handler made for
\* example/widget, which the store holds, before any fetch; it raised and
\* made no query
GetterRaisedBeforeFetch ==
    /\ call.name = "get_repository_structure"
    /\ call.result.kind = "ValueError"
    /\ call.store_queries = 0
    /\ handler.owner = "example" /\ handler.repo_name = "widget"
    /\ handler.repo = None /\ handler.repo_id = None
    /\ mongodb = StaleStore

\* C21 as stated: every technology term that occurs in the lowercased query
\* as the caller gave it, punctuation included, is in the returned list.
TermsOfOriginalQueryReturned ==
    mode = "keywords" /\ pc = "extracted" =>
        \A n \in 1..Len(tech_keywords) :
            Contains(Lower(query), tech_keywords[n]) => InList(tech_keywords[n], keywords)

\* C22 as stated: a second call with the same query returns the same ordered
\* sequence as the first, whatever the iteration order of the sets.
KeywordsSameOnSecondCall ==
    mode = "keywords" /\ pc = "extracted_again" => keywords = first_result.files

\* file_path matches a pattern of a technology that query_lower mentions by
\* name or alias
MatchesMentionedTech(file_path, query_lower) ==
    \E i \in 1..Len(tech_patterns) :
        /\ TechMentioned(tech_patterns[i].tech, query_lower)
        /\ \E j \in 1..Len(tech_patterns[i].patterns) :
               ReSearch(tech_patterns[i].patterns[j], Lower(file_path))

\* per query, the paths of the model that match a pattern of a mentioned
\* technology or the always-important configuration list
WantedPaths ==
    Tabulated([q \in Queries |->
        {f \in Paths : MatchesMentionedTech(f, Lower(q)) \/ IsImportantConfig(f)}])

\* C23: the list _get_technology_specific_files returned holds each path once
\* and is, as a set, exactly the paths of all_files that match a pattern of a
\* mentioned technology or the always-important configuration list, for every
\* query, the empty one included.
TechFilesAreMatchesAndConfigs ==
    calls > 0 =>
        /\ NoDup(tech_files)
        /\ Elems(tech_files) = Elems(all_files) \cap WantedPaths[query]

\* C23 witness: the list holds a path that only a technology's pattern
\* matches, and leaves a path of all_files out
TechFilesMatchedAndLeftOut ==
    /\ calls > 0
    /\ \E i \in 1..Len(tech_files) : ~IsImportantConfig(tech_files[i])
    /\ \E i \in 1..Len(all_files) : ~InList(all_files[i], tech_files)

\* the sum of len(content) // 4 over the entries of a returned mapping
RECURSIVE QuarterLengths(_)
QuarterLengths(files) ==
    IF files = <<>> THEN 0
    ELSE (Len(Head(files).content) \div 4) + QuarterLengths(Tail(files))

\* C24: when get_relevant_files returns, the integer is the sum of
\* len(content) // 4 over the entries of the mapping, every key is a member
\* of all_files and no path is an entry twice, also when all_files repeats a
\* path or a path qualifies in more than one phase.
ReturnedTotalIsSumOverDistinctKeys ==
    pc = "returned" =>
        /\ Result.total = QuarterLengths(Result.files)
        /\ \A i \in 1..Len(Result.files) : InList(Result.files[i].path, all_files)
        /\ \A i, j \in 1..Len(Result.files) :
               Result.files[i].path = Result.files[j].path => i = j

\* C24 witness: a path that all_files lists twice, that is a technology file
\* and a scored file as well, is returned, and the total is its estimate
RepeatedPathCountedOnce ==
    /\ pc = "returned"
    /\ Len(relevant_files) = 1
    /\ \E i, j \in 1..Len(all_files) : i # j /\ all_files[i] = all_files[j]
                                         /\ all_files[i] = relevant_files[1].path
    /\ InList(relevant_files[1].path, tech_files)
    /\ \E i \in 1..Len(scored_files) : scored_files[i].path = relevant_files[1].path
    /\ total_tokens = Len(relevant_files[1].content) \div 4
    /\ total_tokens > 0

\* C25: a call of fetch_repository that ends with the exception of the GitHub
\* lookup leaves the store as it was, also with force=True on a stored
\* repository; a step of fetch_repository that takes a repository document
\* out of the store has made the lookup and the listing of the contents.
LookupFailureKeepsStore ==
    [][/\ (call'.name = "fetch_repository" /\ call'.result.kind = "GithubException"
             => mongodb' = mongodb)
       /\ (call'.name = "fetch_repository"
             /\ (\E d \in mongodb.repositories : d \notin mongodb'.repositories)
             => call'.result.kind = "ok" /\ call'.github_requests = 2)]_vars

\* C25 witness: fetch_repository(force=True) on the stored example/gone has
\* raised GitHub's exception, and the document and its file are in the store
ForcedFetchOfGoneRepositoryRaised ==
    /\ call.name = "fetch_repository"
    /\ call.args = <<TRUE>>
    /\ call.result.kind = "GithubException"
    /\ GetRepositoryByName(mongodb, handler.owner, handler.repo_name) # {}
    /\ mongodb = GoneStore

\* the paths fetch_repository stores for the repository GitHub names full_name
KeptPaths(full_name) ==
    {c.path : c \in {x \in (CHOOSE r \in GitHubRepos : r.full_name = full_name).contents :
                        ~ShouldSkipFile(x.path, x.size)}}

\* C26 as stated: when fetch_repository(force=True) completes for a
\* repository that had a document in the store, no file document of the
\* earlier snapshot is in the store any more and get_all_files for the
\* returned ID lists exactly the files this fetch has stored.
ForcedFetchReplacesSnapshot ==
    [][(/\ call'.name = "fetch_repository"
        /\ call'.args = <<TRUE>>
        /\ call'.result.kind = "ok"
        /\ \E d \in mongodb.repositories : d.full_name = handler'.repo)
       => /\ \A d \in mongodb.repositories : \A f \in mongodb.files :
                d.full_name = handler'.repo /\ f.repo_id = d.id => f \notin mongodb'.files
          /\ StoredPaths(mongodb', call'.result.value) = KeptPaths(handler'.repo)]_vars

\* C29 as stated: a call of delete_repository(id) returns True or False, never
\* raises, and when it returns True the store has lost the repository
\* document with that ID and the file documents with that repo_id, and
\* nothing else.
DeleteRemovesOneRepositoryOrReturnsFalse ==
    [][call'.name = "delete_repository"
       => /\ call'.result.kind = "ok"
          /\ call'.result.value \in {"True", "False"}
          /\ call'.result.value = "True"
                => /\ mongodb'.repositories =
                         {d \in mongodb.repositories : d.id # call'.args[1]}
                   /\ mongodb'.files = {f \in mongodb.files : f.repo_id # call'.args[1]}
          /\ call'.result.value = "False" => mongodb' = mongodb]_vars

\* C27 as stated: when the delete command has deleted the repository that
\* REPO_ID or last_repo.txt recorded as the last one used, neither records
\* its ID any more.
DeletedRepositoryNoLongerRecorded ==
    (/\ mode = "command"
     /\ pc = "shell"
     /\ cli.command = "delete"
     /\ cli.status = "exit 0"
     /\ call.name = "delete_repository")
    => cli.REPO_ID # cli.target_repo_id /\ cli.last_repo # cli.target_repo_id

\* the store has a repository document with the id repo_id
InStore(db, repo_id) == \E d \in db.repositories : d.id = repo_id

\* C28: the step that resolves the target of chat, analyze, list or delete
\* takes --repo-id when given, else REPO_ID when set, else the ID of the
\* stored repository named by --owner and --repo, else the content of
\* last_repo.txt; without an ID, or with an ID of no stored repository, the
\* command exits with 1 in that step and the store is as it was, and only a
\* command whose target is in the store lists files, sends them or deletes.
TargetResolvedInPrecedence ==
    [][/\ (pc = "started" /\ cli.command # "fetch" /\ pc' # "started")
           => LET t == cli'.target_repo_id
                  named == {d \in mongodb.repositories :
                               /\ Truthy(cli.owner) /\ Truthy(cli.repo)
                               /\ d.full_name = cli.owner \o "/" \o cli.repo}
              IN /\ IF Truthy(cli.repo_id) THEN t = cli.repo_id
                    ELSE IF Truthy(cli.REPO_ID) THEN t = cli.REPO_ID
                    ELSE IF named # {} THEN \E d \in named : t = d.id
                    ELSE IF cli.last_repo # None THEN t = cli.last_repo
                    ELSE ~Truthy(t)
                 /\ IF Truthy(t) /\ InStore(mongodb, t)
                    THEN pc' = "body" /\ cli'.status = "running"
                    ELSE /\ pc' = "shell"
                         /\ cli'.status = "exit 1"
                         /\ call'.name = "resolve"
                         /\ mongodb' = mongodb
       /\ (call'.name \in {"get_all_files", "chat_with_codebase", "delete_repository",
                            "get_representative_files"}
           => InStore(mongodb, cli.target_repo_id) /\ pc \in {"body", "analyze"})]_vars

\* C28 witness: list was given --repo-id with an ID of no stored repository
\* in a process whose REPO_ID names a stored one; the option was taken and
\* the command has exited with 1
OptionTakenBeforeRepoIdAndRefused ==
    /\ mode = "command"
    /\ pc = "shell"
    /\ cli.command = "list"
    /\ cli.status = "exit 1"
    /\ Truthy(cli.repo_id)
    /\ Truthy(cli.REPO_ID)
    /\ cli.REPO_ID # cli.repo_id
    /\ InStore(mongodb, cli.REPO_ID)
    /\ cli.target_repo_id = cli.repo_id
    /\ call.name = "resolve"

\* C30 as stated: the analyze command on a stored repository with at least
\* one file eventually hands the selected files to the language-model
\* client.
AnalyzeReachesTheRequest ==
    (/\ mode = "command"
     /\ pc = "body"
     /\ cli.command = "analyze"
     /\ StoredPaths(mongodb, cli.target_repo_id) # {})
    ~> (call.name = "chat_with_codebase")

====
